---- MODULE Spec2Model ----
(***************************************************************************)
(* A model of the PFV codec (Pretty-Fast-Video): the block codec           *)
(* (src/src/dct.rs, src/src/common.rs), the entropy coder (src/src/rle.rs, *)
(* src/src/huffman.rs), the container writer (src/src/enc.rs) and the      *)
(* decoder session (src/src/dec.rs).                                       *)
(*                                                                         *)
(* Number representation.  dct.rs is the fixed-point transform: matrix     *)
(* entries are integers carrying FP_BITS fractional bits (lib.rs:71 and    *)
(* lib.rs:90 show the conversion from and to samples).  enc.rs, dec.rs and *)
(* common.rs hold the quantisation tables as f32; every entry is           *)
(* base * quality * 0.25, a multiple of 1/4, so a table entry is carried   *)
(* here as an integer number of quarters (QUARTER units).                  *)
(*                                                                         *)
(* Sequences are 1-based; a source index i is position i + 1.              *)
(***************************************************************************)
EXTENDS Integers, Sequences, FiniteSets, TLC

(***************************************************************************)
(* Integer helpers for Rust's arithmetic.                                  *)
(***************************************************************************)
\* x >> k on a signed integer: arithmetic shift, floor division by 2^k
Shr(x, k) == x \div (2 ^ k)

\* x << k
Shl(x, k) == x * (2 ^ k)

\* a / b for b > 0 in Rust (and an f32 quotient cast to an integer): truncation toward zero
TruncDiv(a, b) == IF a >= 0 THEN a \div b ELSE -((-a) \div b)

Min(a, b) == IF a < b THEN a ELSE b

Max(a, b) == IF a > b THEN a ELSE b

\* v.clamp(lo, hi)
Clamp(v, lo, hi) == IF v < lo THEN lo ELSE IF v > hi THEN hi ELSE v

\* An array or Vec built element by element: the sequence with every element computed
\* once, when it is built
Arr(f) == f \o << >>

\* one table entry is carried as this many units per 1.0
QUARTER == 4

(***************************************************************************)
(* dct.rs: constants                                                       *)
(***************************************************************************)
FP_BITS == 8

S_0 == 90
S_1 == 65
S_2 == 69
S_3 == 76
S_4 == 90
S_5 == 115
S_6 == 167
S_7 == 328

RS_0 == 724
RS_1 == 1004
RS_2 == 946
RS_3 == 851
RS_4 == 724
RS_5 == 568
RS_6 == 391
RS_7 == 199

A_1 == 181
A_2 == 138
A_3 == 181
A_4 == 334
A_5 == 97

RA_1 == 362
RA_3 == 362

F == -256

Q_TABLE_INTRA ==
  << 8, 16, 19, 22, 26, 27, 29, 34,
     16, 16, 22, 24, 27, 29, 34, 37,
     19, 22, 26, 27, 29, 34, 34, 38,
     22, 22, 26, 27, 29, 34, 37, 40,
     22, 26, 27, 29, 32, 35, 40, 48,
     26, 27, 29, 32, 35, 40, 48, 58,
     26, 27, 29, 34, 38, 46, 56, 69,
     27, 29, 35, 38, 46, 56, 69, 83 >>

Q_TABLE_INTER == Arr([i \in 1..64 |-> 16])

INV_ZIGZAG_TABLE ==
  << 0, 1, 5, 6, 14, 15, 27, 28, 2, 4, 7, 13, 16, 26, 29, 42, 3, 8, 12, 17, 25, 30, 41, 43,
     9, 11, 18, 24, 31, 40, 44, 53, 10, 19, 23, 32, 39, 45, 52, 54, 20, 22,
     33, 38, 46, 51, 55, 60, 21, 34, 37, 47, 50, 56, 59, 61, 35, 36, 48, 49, 57, 58, 62, 63 >>

ZIGZAG_TABLE ==
  << 0, 1, 8, 16, 9, 2, 3, 10, 17, 24, 32, 25, 18, 11, 4, 5, 12, 19, 26, 33, 40, 48, 41, 34,
     27, 20, 13, 6, 7, 14, 21, 28, 35, 42, 49, 56, 57, 50, 43, 36, 29, 22,
     15, 23, 30, 37, 44, 51, 58, 59, 52, 45, 38, 31, 39, 46, 53, 60, 61, 54, 47, 55, 62, 63 >>

(***************************************************************************)
(* dct.rs: fast_dct8_transform.  The source's straight-line code is split  *)
(* into its five dependency levels; each level is one operator whose       *)
(* argument is the tuple of the values the level reads, so that every      *)
(* intermediate value v0..v28 is computed once, as in the source.          *)
(***************************************************************************)
\* level 1: << v0, v1, v2, v3, v4, v5, v6, v7 >>
fdct_level1(x) ==
  << x[1] + x[8], x[2] + x[7], x[3] + x[6], x[4] + x[5],
     x[4] - x[5], x[3] - x[6], x[2] - x[7], x[1] - x[8] >>

\* level 2: << v8, v9, v10, v11, v12, v13, v14, v7 >>
fdct_level2(v) ==
  << v[1] + v[4], v[2] + v[3], v[2] - v[3], v[1] - v[4],
     (-v[5]) - v[6], Shr((v[6] + v[7]) * A_3, FP_BITS), v[7] + v[8], v[8] >>

\* level 3: << v15, v16, v17, v18, v11, v12, v13, v14, v7 >>
fdct_level3(w) ==
  << w[1] + w[2], w[1] - w[2], Shr((w[3] + w[4]) * A_1, FP_BITS),
     Shr((w[5] + w[7]) * A_5, FP_BITS), w[4], w[5], w[6], w[7], w[8] >>

\* level 4: << v15, v16, v21, v22, v19, v20, v23, v24 >>
fdct_level4(u) ==
  << u[1], u[2], u[3] + u[5], u[5] - u[3],
     Shr((-u[6]) * A_2, FP_BITS) - u[4], Shr(u[8] * A_4, FP_BITS) - u[4],
     u[7] + u[9], u[9] - u[7] >>

\* level 5: v25 = v19 + v24, v26 = v23 + v20, v27 = v23 - v20, v28 = v24 - v19, and the outputs
fdct_level5(t) ==
  << Shr(S_0 * t[1], FP_BITS), Shr(S_1 * (t[7] + t[6]), FP_BITS),
     Shr(S_2 * t[3], FP_BITS), Shr(S_3 * (t[8] - t[5]), FP_BITS),
     Shr(S_4 * t[2], FP_BITS), Shr(S_5 * (t[5] + t[8]), FP_BITS),
     Shr(S_6 * t[4], FP_BITS), Shr(S_7 * (t[7] - t[6]), FP_BITS) >>

fast_dct8_transform(vector) ==
  fdct_level5(fdct_level4(fdct_level3(fdct_level2(fdct_level1(vector)))))

(***************************************************************************)
(* dct.rs: fast_dct8_inverse_transform, split the same way.                *)
(***************************************************************************)
\* level 1: << v15, v26, v21, v28, v16, v25, v22, v27 >>
idct_level1(x) ==
  << Shr(x[1] * RS_0, FP_BITS), Shr(x[2] * RS_1, FP_BITS), Shr(x[3] * RS_2, FP_BITS),
     Shr(x[4] * RS_3, FP_BITS), Shr(x[5] * RS_4, FP_BITS), Shr(x[6] * RS_5, FP_BITS),
     Shr(x[7] * RS_6, FP_BITS), Shr(x[8] * RS_7, FP_BITS) >>

\* level 2: << v19, v20, v23, v24, v11, v17, v8, v9 >>
idct_level2(a) ==
  << Shr(a[6] - a[4], 1), Shr(a[2] - a[8], 1), Shr(a[2] + a[8], 1), Shr(a[6] + a[4], 1),
     Shr(a[3] + a[7], 1), Shr(a[3] - a[7], 1), Shr(a[1] + a[5], 1), Shr(a[1] - a[5], 1) >>

\* level 3: << v7, v13, v18, v19, v20, v11, v17, v8, v9 >>
idct_level3(b) ==
  << Shr(b[3] + b[4], 1), Shr(b[3] - b[4], 1), Shr((b[1] - b[2]) * A_5, FP_BITS),
     b[1], b[2], b[5], b[6], b[7], b[8] >>

\* level 4: << v7, v13, v12, v14, v11, v10, v8, v9 >>
idct_level4(c) ==
  << c[1], c[2],
     Shr((Shr(c[4] * A_4, FP_BITS) - c[3]) * F, FP_BITS),
     Shr((c[3] - Shr(c[5] * A_2, FP_BITS)) * F, FP_BITS),
     c[6], Shr(c[7] * RA_1, FP_BITS) - c[6], c[8], c[9] >>

\* level 5: << v7, v6, v5, v12, v0, v1, v2, v3 >> with v6 = v14 - v7, v5 = ((v13 * RA_3) >> 8) - v6
idct_level5(d) ==
  << d[1], d[4] - d[1], Shr(d[2] * RA_3, FP_BITS) - (d[4] - d[1]), d[3],
     Shr(d[7] + d[5], 1), Shr(d[8] + d[6], 1), Shr(d[8] - d[6], 1), Shr(d[7] - d[5], 1) >>

\* level 6: v4 = -v5 - v12, and the outputs
idct_level6(e) ==
  << Shr(e[5] + e[1], 1), Shr(e[6] + e[2], 1), Shr(e[7] + e[3], 1),
     Shr(e[8] + ((-e[3]) - e[4]), 1), Shr(e[8] - ((-e[3]) - e[4]), 1),
     Shr(e[7] - e[3], 1), Shr(e[6] - e[2], 1), Shr(e[5] - e[1], 1) >>

fast_dct8_inverse_transform(vector) ==
  idct_level6(idct_level5(idct_level4(idct_level3(idct_level2(idct_level1(vector))))))

(***************************************************************************)
(* dct.rs: rows and columns of a DctMatrix8x8 (64 entries, row order)      *)
(***************************************************************************)
get_row(m, index) == Arr([i \in 1..8 |-> m[index * 8 + i]])

get_column(m, index) == Arr([row \in 1..8 |-> m[index + 1 + (row - 1) * 8]])

\* set_row for every row: rows[r + 1] is the new row r
from_rows(rows) == Arr([k \in 1..64 |-> rows[((k - 1) \div 8) + 1][((k - 1) % 8) + 1]])

\* set_column for every column: cols[c + 1] is the new column c
from_columns(cols) == Arr([k \in 1..64 |-> cols[((k - 1) % 8) + 1][((k - 1) \div 8) + 1]])

dct_transform_rows(m) ==
  from_rows(Arr([idx \in 1..8 |-> fast_dct8_transform(get_row(m, idx - 1))]))

dct_transform_columns(m) ==
  from_columns(Arr([idx \in 1..8 |-> fast_dct8_transform(get_column(m, idx - 1))]))

dct_inverse_transform_rows(m) ==
  from_rows(Arr([idx \in 1..8 |-> fast_dct8_inverse_transform(get_row(m, idx - 1))]))

dct_inverse_transform_columns(m) ==
  from_columns(Arr([idx \in 1..8 |-> fast_dct8_inverse_transform(get_column(m, idx - 1))]))

(***************************************************************************)
(* dct.rs: quantisation.  q_table entries are in QUARTER units.            *)
(***************************************************************************)
\* DctMatrix8x8::encode: result.m[idx] = ((self.m[ZIGZAG_TABLE[idx]] >> FP_BITS) / q_table[idx]) as i16
dct_encode(m, q_table) ==
  Arr([idx \in 1..64 |->
     TruncDiv(Shr(m[ZIGZAG_TABLE[idx] + 1], FP_BITS) * QUARTER, q_table[idx])])

\* DctMatrix8x8::decode: result.m[idx] = ((src.m[INV_ZIGZAG_TABLE[idx]] as i32) << FP_BITS) * q_table[idx]
dct_decode(src, q_table) ==
  Arr([idx \in 1..64 |->
     (Shl(src[INV_ZIGZAG_TABLE[idx] + 1], FP_BITS) * q_table[idx]) \div QUARTER])

(***************************************************************************)
(* plane.rs: VideoPlane, a record [width, height, pixels] with pixels in   *)
(* row order.                                                              *)
(***************************************************************************)
plane_new(w, h) == [width |-> w, height |-> h, pixels |-> Arr([i \in 1..(w * h) |-> 0])]

\* pixels.fill(c)
plane_fill(self, c) == [self EXCEPT !.pixels = Arr([i \in 1..(self.width * self.height) |-> c])]

\* VideoPlane::blit: copy the sw x sh rectangle of src at (sx, sy) to (dx, dy) of self
blit(self, src, dx, dy, sx, sy, sw, sh) ==
  [self EXCEPT !.pixels =
     Arr([i \in 1..(self.width * self.height) |->
        IF /\ ((i - 1) % self.width) >= dx
           /\ ((i - 1) % self.width) < dx + sw
           /\ ((i - 1) \div self.width) >= dy
           /\ ((i - 1) \div self.width) < dy + sh
        THEN src.pixels[((((i - 1) \div self.width) - dy) + sy) * src.width
                        + ((((i - 1) % self.width) - dx) + sx) + 1]
        ELSE self.pixels[i]])]

get_slice(self, sx, sy, sw, sh) == blit(plane_new(sw, sh), self, 0, 0, sx, sy, sw, sh)

(***************************************************************************)
(* common.rs: macroblocks.  A MacroBlock is its 256 pixels, a sub-block    *)
(* its 64 samples or coefficients.                                         *)
(***************************************************************************)
MB_SIZE == 16

\* smallest multiple of 16 that is >= w
pad_dim(w) == w + ((MB_SIZE - (w % MB_SIZE)) % MB_SIZE)

\* stands for f32::INFINITY: larger than every sum calc_error can reach
F32_INFINITY == (255 * 255 * 256) + 1

macroblock_new == Arr([i \in 1..256 |-> 0])

blit_subblock(self, src, dx, dy) ==
  Arr([i \in 1..256 |->
     IF /\ ((i - 1) % 16) >= dx
        /\ ((i - 1) % 16) < dx + 8
        /\ ((i - 1) \div 16) >= dy
        /\ ((i - 1) \div 16) < dy + 8
     THEN src[((((i - 1) \div 16) - dy) * 8) + (((i - 1) % 16) - dx) + 1]
     ELSE self[i]])

\* a faulty apply_residuals: the residual is not doubled
apply_residuals_unscaled(self, from) ==
  Arr([i \in 1..256 |-> Clamp(from[i] + (self[i] - 128), 0, 255)])

apply_residuals(self, from) ==
  Arr([i \in 1..256 |-> Clamp(from[i] + ((self[i] - 128) * 2), 0, 255)])

calc_residuals(from, to) ==
  [from EXCEPT !.pixels =
     Arr([i \in 1..(from.width * from.height) |->
        Clamp(TruncDiv(from.pixels[i] - to.pixels[i], 2) + 128, 0, 255)])]

\* one iteration of the loop of calc_error; s = [idx, sum, done], done after the early return
calc_error_step(a, b, ref_lms, s) ==
  IF s.done \/ s.idx > Len(a) THEN s
  ELSE [idx |-> s.idx + 1,
        sum |-> s.sum + ((a[s.idx] - b[s.idx]) * (a[s.idx] - b[s.idx])),
        done |-> s.sum + ((a[s.idx] - b[s.idx]) * (a[s.idx] - b[s.idx])) >= ref_lms]

\* n iterations of the loop, run as two halves so that the evaluation stays shallow
RECURSIVE calc_error_loop(_, _, _, _, _)
calc_error_then(a, b, ref_lms, s, n) ==
  IF s.idx > 0 THEN calc_error_loop(a, b, ref_lms, s, n) ELSE s

calc_error_loop(a, b, ref_lms, s, n) ==
  IF n = 0 THEN s
  ELSE IF n = 1 THEN calc_error_step(a, b, ref_lms, s)
  ELSE calc_error_then(a, b, ref_lms, calc_error_loop(a, b, ref_lms, s, n \div 2), n - (n \div 2))

calc_error(from, to, ref_lms) ==
  calc_error_loop(from.pixels, to.pixels, ref_lms,
                  [idx |-> 1, sum |-> 0, done |-> FALSE], Len(from.pixels)).sum

\* the first half of encode_subblock: samples to transformed matrix
subblock_dct(src) ==
  dct_transform_columns(dct_transform_rows(Arr([i \in 1..64 |-> Shl(src.pixels[i] - 128, FP_BITS)])))

encode_subblock(src, q_table) == dct_encode(subblock_dct(src), q_table)

\* the last loop of decode_subblock: (px + 128.0) as u8, a saturating cast
subblock_pixels(m) == Arr([idx \in 1..64 |-> Clamp(Shr(m[idx], FP_BITS) + 128, 0, 255)])

decode_subblock(src, q_table) ==
  subblock_pixels(
    dct_inverse_transform_rows(dct_inverse_transform_columns(dct_decode(src, q_table))))

\* an EncodedMacroBlock is the sequence of its four sub-blocks
encode_block(src, q_table) ==
  << encode_subblock(get_slice(src, 0, 0, 8, 8), q_table),
     encode_subblock(get_slice(src, 8, 0, 8, 8), q_table),
     encode_subblock(get_slice(src, 0, 8, 8, 8), q_table),
     encode_subblock(get_slice(src, 8, 8, 8, 8), q_table) >>

decode_block(src, q_table) ==
  blit_subblock(
    blit_subblock(
      blit_subblock(
        blit_subblock(macroblock_new, decode_subblock(src[1], q_table), 0, 0),
        decode_subblock(src[2], q_table), 8, 0),
      decode_subblock(src[3], q_table), 0, 8),
    decode_subblock(src[4], q_table), 8, 8)

get_block(self, sx, sy) ==
  Arr([i \in 1..256 |-> self.pixels[((((i - 1) \div 16) + sy) * self.width) + sx + ((i - 1) % 16) + 1]])

blit_block(self, block, dx, dy) ==
  [self EXCEPT !.pixels =
     Arr([i \in 1..(self.width * self.height) |->
        IF /\ ((i - 1) % self.width) >= dx
           /\ ((i - 1) % self.width) < dx + 16
           /\ ((i - 1) \div self.width) >= dy
           /\ ((i - 1) \div self.width) < dy + 16
        THEN block[((((i - 1) \div self.width) - dy) * 16) + (((i - 1) % self.width) - dx) + 1]
        ELSE self.pixels[i]])]

(***************************************************************************)
(* common.rs: motion search and delta blocks.  A DeltaEncodedMacroBlock is *)
(* [motion_x, motion_y, subblocks]; subblocks = << >> stands for None.     *)
(***************************************************************************)
\* if err < best_err { best_err = err; best_dx = mx; best_dy = my; }
motion_keep_best(best, mx, my, err) ==
  IF err < best.err THEN [best EXCEPT !.k = @ + 1, !.err = err, !.dx = mx, !.dy = my]
  ELSE [best EXCEPT !.k = @ + 1]

\* one iteration of the inner loop; best = [k, err, dx, dy], and iteration k has
\* my = (k / 32) - 16 and mx = (k % 32) - 16
motion_search_step(src, refplane, bx, by, best) ==
  IF \/ by + ((best.k \div 32) - 16) < 0
     \/ by + ((best.k \div 32) - 16) > refplane.height - 16
     \/ bx + ((best.k % 32) - 16) < 0
     \/ bx + ((best.k % 32) - 16) > refplane.width - 16
  THEN [best EXCEPT !.k = @ + 1]
  ELSE motion_keep_best(best, (best.k % 32) - 16, (best.k \div 32) - 16,
         calc_error(src,
                    get_slice(refplane, bx + ((best.k % 32) - 16),
                              by + ((best.k \div 32) - 16), 16, 16),
                    best.err))

RECURSIVE motion_search_loop(_, _, _, _, _, _)
motion_search_then(src, refplane, bx, by, best, n) ==
  IF best.k >= 0 THEN motion_search_loop(src, refplane, bx, by, best, n) ELSE best

motion_search_loop(src, refplane, bx, by, best, n) ==
  IF n = 0 THEN best
  ELSE IF n = 1 THEN motion_search_step(src, refplane, bx, by, best)
  ELSE motion_search_then(src, refplane, bx, by,
         motion_search_loop(src, refplane, bx, by, best, n \div 2), n - (n \div 2))

\* the tail of encode_block_delta, once the search has settled on best
delta_block_emit(src, refplane, bx, by, q_table, min_err, best) ==
  IF best.err <= min_err
  THEN [motion_x |-> best.dx, motion_y |-> best.dy, subblocks |-> << >>]
  ELSE [motion_x |-> best.dx, motion_y |-> best.dy,
        subblocks |->
          encode_block(
            calc_residuals(src, get_slice(refplane, bx + best.dx, by + best.dy, 16, 16)),
            q_table)]

\* px_err is in QUARTER units, so min_err = px_err * px_err * 256.0 divides by QUARTER twice
encode_block_delta(src, refplane, bx, by, q_table, px_err) ==
  delta_block_emit(src, refplane, bx, by, q_table,
    (px_err * px_err * 256) \div (QUARTER * QUARTER),
    motion_search_loop(src, refplane, bx, by,
                       [k |-> 0, err |-> F32_INFINITY, dx |-> 0, dy |-> 0], 32 * 32))

decode_block_delta(src, refplane, bx, by, q_table) ==
  IF src.subblocks # << >>
  THEN apply_residuals(decode_block(src.subblocks, q_table),
                       get_block(refplane, bx + src.motion_x, by + src.motion_y))
  ELSE get_block(refplane, bx + src.motion_x, by + src.motion_y)

(***************************************************************************)
(* common.rs: planes.  An encoded plane is                                 *)
(* [width, height, blocks_wide, blocks_high, blocks].                      *)
(***************************************************************************)
\* img_copy: the plane padded to whole macroblocks over clear_color
pad_plane(self, clear_color) ==
  blit(plane_fill(plane_new(pad_dim(self.width), pad_dim(self.height)), clear_color),
       self, 0, 0, 0, 0, self.width, self.height)

\* the macroblock pushed for (block_x, block_y), block = block_x + block_y * blocks_wide
plane_block(img_copy, block) ==
  get_slice(img_copy, (block % (img_copy.width \div 16)) * 16,
            (block \div (img_copy.width \div 16)) * 16, 16, 16)

encode_padded(img_copy, q_table) ==
  [width |-> img_copy.width, height |-> img_copy.height,
   blocks_wide |-> img_copy.width \div 16, blocks_high |-> img_copy.height \div 16,
   blocks |-> Arr([b \in 1..((img_copy.width \div 16) * (img_copy.height \div 16)) |->
                 encode_block(plane_block(img_copy, b - 1), q_table)])]

encode_plane(self, q_table, clear_color) == encode_padded(pad_plane(self, clear_color), q_table)

encode_padded_delta(img_copy, refplane, q_table, px_err) ==
  [width |-> img_copy.width, height |-> img_copy.height,
   blocks_wide |-> img_copy.width \div 16, blocks_high |-> img_copy.height \div 16,
   blocks |-> Arr([b \in 1..((img_copy.width \div 16) * (img_copy.height \div 16)) |->
                 encode_block_delta(plane_block(img_copy, b - 1), refplane,
                                    ((b - 1) % (img_copy.width \div 16)) * 16,
                                    ((b - 1) \div (img_copy.width \div 16)) * 16,
                                    q_table, px_err)])]

encode_plane_delta(self, refplane, q_table, px_err, clear_color) ==
  encode_padded_delta(pad_plane(self, clear_color), refplane, q_table, px_err)

\* a faulty pair of blit_block loops: it takes the block at (block_x, block_y) from
\* results[block_y + (block_x * blocks_high)]
blit_results_by_column(target, results, blocks_wide, blocks_high) ==
  [target EXCEPT !.pixels =
     Arr([i \in 1..(target.width * target.height) |->
        IF /\ ((i - 1) % target.width) < blocks_wide * 16
           /\ ((i - 1) \div target.width) < blocks_high * 16
        THEN results[(((i - 1) \div target.width) \div 16)
                     + ((((i - 1) % target.width) \div 16) * blocks_high) + 1]
                    [((((i - 1) \div target.width) % 16) * 16)
                     + (((i - 1) % target.width) % 16) + 1]
        ELSE target.pixels[i]])]

\* the two nested blit_block loops: results[x + 1] is the decoded block x
blit_results(target, results, blocks_wide, blocks_high) ==
  [target EXCEPT !.pixels =
     Arr([i \in 1..(target.width * target.height) |->
        IF /\ ((i - 1) % target.width) < blocks_wide * 16
           /\ ((i - 1) \div target.width) < blocks_high * 16
        THEN results[(((i - 1) % target.width) \div 16)
                     + ((((i - 1) \div target.width) \div 16) * blocks_wide) + 1]
                    [((((i - 1) \div target.width) % 16) * 16)
                     + (((i - 1) % target.width) % 16) + 1]
        ELSE target.pixels[i]])]

decoded_blocks(src, q_table) ==
  Arr([x \in 1..(src.blocks_wide * src.blocks_high) |-> decode_block(src.blocks[x], q_table)])

decoded_blocks_delta(src, refplane, q_table) ==
  Arr([x \in 1..(src.blocks_wide * src.blocks_high) |->
     decode_block_delta(src.blocks[x], refplane, ((x - 1) % src.blocks_wide) * 16,
                        ((x - 1) \div src.blocks_wide) * 16, q_table)])

decode_plane(src, q_table) ==
  blit_results(plane_new(src.blocks_wide * 16, src.blocks_high * 16),
               decoded_blocks(src, q_table), src.blocks_wide, src.blocks_high)

decode_plane_delta(src, refplane, q_table) ==
  blit_results(plane_new(src.blocks_wide * 16, src.blocks_high * 16),
               decoded_blocks_delta(src, refplane, q_table), src.blocks_wide, src.blocks_high)

\* a faulty decode_plane_into: the blocks that are decoded are not blitted
decode_plane_into_unwritten(src, q_table, target) == target

decode_plane_into(src, q_table, target) ==
  blit_results(target, decoded_blocks(src, q_table), src.blocks_wide, src.blocks_high)

decode_plane_delta_into(src, refplane, q_table) ==
  blit_results(refplane, decoded_blocks_delta(src, refplane, q_table),
               src.blocks_wide, src.blocks_high)

(***************************************************************************)
(* frame.rs: VideoFrame, a record [width, height, plane_y, plane_u,        *)
(* plane_v].                                                               *)
(***************************************************************************)
frame_new(width, height) ==
  [width |-> width, height |-> height,
   plane_y |-> plane_new(width, height),
   plane_u |-> plane_fill(plane_new(width \div 2, height \div 2), 128),
   plane_v |-> plane_fill(plane_new(width \div 2, height \div 2), 128)]

frame_new_padded(width, height) ==
  [width |-> width, height |-> height,
   plane_y |-> plane_new(pad_dim(width), pad_dim(height)),
   plane_u |-> plane_fill(plane_new(pad_dim(width \div 2), pad_dim(height \div 2)), 128),
   plane_v |-> plane_fill(plane_new(pad_dim(width \div 2), pad_dim(height \div 2)), 128)]

(***************************************************************************)
(* rle.rs.  An RLESequence is [num_zeroes, coeff_size, coeff].             *)
(***************************************************************************)
\* 16 - c.leading_zeros() for a u16 c: the number of significant bits
bit_length(c) == CHOOSE k \in 0..16 : c < 2 ^ k /\ (k = 0 \/ c >= 2 ^ (k - 1))

Abs(v) == IF v < 0 THEN -v ELSE v

\* the pushes of: while run > 15 { push(15, 0, 0); run -= 15; }
rle_long_runs(run) ==
  Arr([j \in 1..(IF run > 15 THEN (run - 1) \div 15 ELSE 0) |->
         [num_zeroes |-> 15, coeff_size |-> 0, coeff |-> 0]])

\* run after that loop
rle_short_run(run) == IF run > 15 THEN run - (15 * ((run - 1) \div 15)) ELSE run

\* one iteration of the for loop; s = [idx, run, into]
rle_encode_step(data, s) ==
  IF s.idx > Len(data) THEN s
  ELSE IF data[s.idx] = 0 THEN [s EXCEPT !.idx = @ + 1, !.run = @ + 1]
  ELSE [idx |-> s.idx + 1, run |-> 0,
        into |-> (s.into \o rle_long_runs(s.run))
                 \o << [num_zeroes |-> rle_short_run(s.run),
                        coeff_size |-> bit_length(Abs(data[s.idx])) + 1,
                        coeff |-> data[s.idx]] >>]

RECURSIVE rle_encode_loop(_, _, _)
rle_encode_then(data, s, n) == IF s.idx > 0 THEN rle_encode_loop(data, s, n) ELSE s

rle_encode_loop(data, s, n) ==
  IF n = 0 THEN s
  ELSE IF n = 1 THEN rle_encode_step(data, s)
  ELSE rle_encode_then(data, rle_encode_loop(data, s, n \div 2), n - (n \div 2))

\* the code after the for loop
rle_encode_tail(s) ==
  (s.into \o rle_long_runs(s.run))
  \o (IF rle_short_run(s.run) > 0
      THEN << [num_zeroes |-> rle_short_run(s.run), coeff_size |-> 0, coeff |-> 0] >>
      ELSE << >>)

rle_encode(data) ==
  rle_encode_tail(rle_encode_loop(data, [idx |-> 1, run |-> 0, into |-> << >>], Len(data)))

\* table[k] after the counting loop
rle_symbol_count(sequence, k) ==
  Cardinality({i \in 1..Len(sequence) : sequence[i].num_zeroes = k})
  + Cardinality({i \in 1..Len(sequence) : sequence[i].coeff_size = k})

rle_counts(sequence) == Arr([k \in 1..16 |-> rle_symbol_count(sequence, k - 1)])

\* max after the counting loop
rle_max_count(table) == CHOOSE m \in {table[k] : k \in 1..16} : \A k \in 1..16 : table[k] <= m

rle_normalise(table, max) ==
  Arr([k \in 1..16 |-> IF table[k] > 0 THEN Max((table[k] * 255) \div max, 1) ELSE 0])

\* the frequency table rle_create_huffman hands to HuffmanTree::from_table
rle_create_table(sequence) == rle_normalise(rle_counts(sequence), rle_max_count(rle_counts(sequence)))

(***************************************************************************)
(* huffman.rs.  A Code is [val, len, symbol]; a Node is                    *)
(* [freq, ch, inner, left, right] with ch = NO_CH for None, and left and   *)
(* right meaningful only where inner is TRUE.                              *)
(***************************************************************************)
NO_CH == -1

code_new == [val |-> 0, len |-> 0, symbol |-> 0]

\* a faulty Code::append: it counts the bit and does not store it
code_append_blank(self, bit) == [self EXCEPT !.len = @ + 1]

code_append(self, bit) == [self EXCEPT !.val = @ + (bit * (2 ^ self.len)), !.len = @ + 1]

node_new(freq, ch) == [freq |-> freq, ch |-> ch, inner |-> FALSE, left |-> 0, right |-> 0]

\* the leaves pushed for the symbols with a positive frequency, in symbol order
huffman_leaves(table) ==
  SelectSeq(Arr([k \in 1..16 |-> node_new(table[k], k - 1)]), LAMBDA nd : nd.freq > 0)

\* p.sort_by(|a, b| b.freq.cmp(&a.freq)): a stable sort, descending by freq
huffman_sorted(p) ==
  Arr([r \in 1..Len(p) |->
     p[CHOOSE i \in 1..Len(p) :
         r = 1 + Cardinality({j \in 1..Len(p) : p[j].freq > p[i].freq})
               + Cardinality({j \in 1..(i - 1) : p[j].freq = p[i].freq})]])

\* get_insert_index, as a 0-based index
get_insert_index(node, p) ==
  IF \E i \in 1..Len(p) : node.freq > p[i].freq
  THEN (CHOOSE i \in 1..Len(p) :
          /\ node.freq > p[i].freq
          /\ \A j \in 1..(i - 1) : ~(node.freq > p[j].freq)) - 1
  ELSE Len(p)

\* p.insert(pos, c)
vec_insert(p, pos, c) == (SubSeq(p, 1, pos) \o << c >>) \o SubSeq(p, pos + 1, Len(p))

\* the node c built in one iteration of the while loop: a = last, b = last but one
huffman_join(p) ==
  [freq |-> p[Len(p)].freq + p[Len(p) - 1].freq, ch |-> NO_CH, inner |-> TRUE,
   left |-> p[Len(p)], right |-> p[Len(p) - 1]]

\* while p.len() > 1 { ... }
RECURSIVE huffman_merge(_)
huffman_merge_insert(rest, c) == huffman_merge(vec_insert(rest, get_insert_index(c, rest), c))

huffman_merge(p) ==
  IF Len(p) <= 1 THEN p ELSE huffman_merge_insert(SubSeq(p, 1, Len(p) - 2), huffman_join(p))

RECURSIVE assign_codes(_, _, _)
assign_codes(p, h, s) ==
  IF p.ch # NO_CH THEN [h EXCEPT ![p.ch + 1] = [val |-> s.val, len |-> s.len, symbol |-> p.ch]]
  ELSE IF p.inner
       THEN assign_codes(p.right, assign_codes(p.left, h, code_append(s, 0)), code_append(s, 1))
       ELSE h

\* the entry of dec_table for val: the first code, in symbol order, of 1..8 bits that val's
\* low bits spell
dec_table_entry(codes, val) ==
  IF \E k \in 1..16 : codes[k].len > 0 /\ codes[k].len <= 8 /\ val % (2 ^ codes[k].len) = codes[k].val
  THEN codes[CHOOSE k \in 1..16 :
               /\ codes[k].len > 0 /\ codes[k].len <= 8 /\ val % (2 ^ codes[k].len) = codes[k].val
               /\ \A j \in 1..(k - 1) :
                    ~(codes[j].len > 0 /\ codes[j].len <= 8 /\ val % (2 ^ codes[j].len) = codes[j].val)]
  ELSE code_new

huffman_empty ==
  [codes |-> Arr([k \in 1..16 |-> code_new]), table |-> Arr([k \in 1..16 |-> 0]),
   dec_table |-> Arr([v \in 1..256 |-> code_new]), root |-> node_new(0, NO_CH)]

\* the tree built once the merge loop has left the single node root
huffman_from_root(table, root, codes) ==
  [codes |-> codes, table |-> table,
   dec_table |-> Arr([v \in 1..256 |-> dec_table_entry(codes, v - 1)]), root |-> root]

huffman_from_nodes(table, p) ==
  IF Len(p) = 0 THEN huffman_empty
  ELSE huffman_from_root(table, p[1], assign_codes(p[1], Arr([k \in 1..16 |-> code_new]), code_new))

from_table(table) == huffman_from_nodes(table, huffman_merge(huffman_sorted(huffman_leaves(table))))

rle_create_huffman(sequence) == from_table(rle_create_table(sequence))

get_code(self, val) == self.codes[val + 1]

(***************************************************************************)
(* Bit and byte output (bitstream_io's little-endian BitWriter and         *)
(* byteorder's LittleEndian writes, as enc.rs calls them).  A bit string   *)
(* is a sequence over {0, 1}, first written bit first.                     *)
(***************************************************************************)
\* bitwriter.write(len, val): the low len bits of val, least significant first
bits_le(len, val) == Arr([j \in 1..len |-> (val \div (2 ^ (j - 1))) % 2])

\* bitwriter.write_signed(bits, value): bits - 1 low bits, then the sign bit, which is the
\* two's complement of value in bits bits, least significant first
signed_bits(bits, value) == bits_le(bits, IF value < 0 THEN value + (2 ^ bits) ELSE value)

\* the concatenation of seqs[lo], ..., seqs[hi]
RECURSIVE concat_range(_, _, _)
concat_range(seqs, lo, hi) ==
  IF lo > hi THEN << >>
  ELSE IF lo = hi THEN seqs[lo]
  ELSE concat_range(seqs, lo, (lo + hi) \div 2) \o concat_range(seqs, ((lo + hi) \div 2) + 1, hi)

concat_all(seqs) == Arr(concat_range(seqs, 1, Len(seqs)))

\* bitwriter.byte_align(): zero bits up to the next whole byte
byte_align(bits) == bits \o Arr([j \in 1..((8 - (Len(bits) % 8)) % 8) |-> 0])

\* the bytes a byte-aligned bit string is stored as
bits_to_bytes(bits) ==
  Arr([k \in 1..(Len(bits) \div 8) |->
         bits[(8 * k) - 7] + (2 * bits[(8 * k) - 6]) + (4 * bits[(8 * k) - 5])
         + (8 * bits[(8 * k) - 4]) + (16 * bits[(8 * k) - 3]) + (32 * bits[(8 * k) - 2])
         + (64 * bits[(8 * k) - 1]) + (128 * bits[8 * k])])

write_u8(v) == << v % 256 >>

write_u16(v) == << v % 256, (v \div 256) % 256 >>

write_u32(v) == << v % 256, (v \div 256) % 256, (v \div 65536) % 256, (v \div 16777216) % 256 >>

(***************************************************************************)
(* enc.rs: packet writers                                                  *)
(***************************************************************************)
\* coeff.extend_from_slice of the four sub-blocks of every block of one plane
plane_coeff(plane) ==
  concat_all(Arr([b \in 1..Len(plane.blocks) |-> concat_all(plane.blocks[b])]))

frame_coeff(f) == (plane_coeff(f.y) \o plane_coeff(f.u)) \o plane_coeff(f.v)

\* the same for delta blocks: a block whose subblocks is None adds nothing
plane_coeff_delta(plane) ==
  concat_all(Arr([b \in 1..Len(plane.blocks) |-> concat_all(plane.blocks[b].subblocks)]))

frame_coeff_delta(f) ==
  (plane_coeff_delta(f.y) \o plane_coeff_delta(f.u)) \o plane_coeff_delta(f.v)

\* the bits written for one RLESequence
rle_entry_bits(tree, sq) ==
  (bits_le(get_code(tree, sq.num_zeroes).len, get_code(tree, sq.num_zeroes).val)
   \o bits_le(get_code(tree, sq.coeff_size).len, get_code(tree, sq.coeff_size).val))
  \o (IF sq.coeff_size > 0 THEN signed_bits(sq.coeff_size, sq.coeff) ELSE << >>)

rle_bits(tree, rle_sequence) ==
  concat_all(Arr([i \in 1..Len(rle_sequence) |-> rle_entry_bits(tree, rle_sequence[i])]))

\* the 16 frequency bytes and the three q-table indices
prologue_bits(tree_table, qidx) ==
  concat_all(Arr([i \in 1..16 |-> bits_le(8, tree_table[i])]))
  \o ((bits_le(8, qidx) \o bits_le(8, qidx)) \o bits_le(8, qidx))

\* packet type, payload length, payload
\* a faulty packet writer: the length it writes counts the packet header as well
packet_bytes_with_header(packet_type, packet_data) ==
  (write_u8(packet_type) \o write_u32(Len(packet_data) + 5)) \o packet_data

packet_bytes(packet_type, packet_data) ==
  (write_u8(packet_type) \o write_u32(Len(packet_data))) \o packet_data

iframe_payload(tree, rle_sequence) ==
  bits_to_bytes(byte_align(prologue_bits(tree.table, 0) \o rle_bits(tree, rle_sequence)))

iframe_packet(rle_sequence) ==
  packet_bytes(1, iframe_payload(rle_create_huffman(rle_sequence), rle_sequence))

write_iframe_packet(f) == iframe_packet(rle_encode(frame_coeff(f)))

\* the header bits of one delta block
block_header_bits(b) ==
  << IF b.motion_x # 0 \/ b.motion_y # 0 THEN 1 ELSE 0, IF b.subblocks # << >> THEN 1 ELSE 0 >>
  \o (IF b.motion_x # 0 \/ b.motion_y # 0
      THEN signed_bits(7, b.motion_x) \o signed_bits(7, b.motion_y)
      ELSE << >>)

plane_header_bits(plane) ==
  concat_all(Arr([b \in 1..Len(plane.blocks) |-> block_header_bits(plane.blocks[b])]))

pframe_payload(f, tree, rle_sequence) ==
  bits_to_bytes(byte_align(
    (prologue_bits(tree.table, 1)
     \o ((plane_header_bits(f.y) \o plane_header_bits(f.u)) \o plane_header_bits(f.v)))
    \o rle_bits(tree, rle_sequence)))

pframe_packet(f, rle_sequence) ==
  packet_bytes(2, pframe_payload(f, rle_create_huffman(rle_sequence), rle_sequence))

write_pframe_packet(f) == pframe_packet(f, rle_encode(frame_coeff_delta(f)))

write_drop_packet == write_u8(1) \o write_u32(0)

write_eof == write_u8(0) \o write_u32(0)

(***************************************************************************)
(* Bit input (bitstream_io's little-endian BitReader over a Cursor, as     *)
(* dec.rs and huffman.rs call it).  data is the payload's bytes, pos the   *)
(* reader's position in bits.  A read result is [st, val, pos] with        *)
(* st = "ok", or "io" for the reader's UnexpectedEof.                      *)
(***************************************************************************)
byte_at(data, i) == IF i >= 1 /\ i <= Len(data) THEN data[i] ELSE 0

\* the bits from pos on, as a number: three bytes hold every read of up to 17 bits
bits_from(data, pos) ==
  (byte_at(data, (pos \div 8) + 1) + (256 * byte_at(data, (pos \div 8) + 2))
   + (65536 * byte_at(data, (pos \div 8) + 3)))
  \div (2 ^ (pos % 8))

\* bitreader.read(bits)
read_bits(data, pos, bits) ==
  IF pos + bits > 8 * Len(data) THEN [st |-> "io", val |-> 0, pos |-> pos]
  ELSE [st |-> "ok", val |-> bits_from(data, pos) % (2 ^ bits), pos |-> pos + bits]

\* the value of bits bits read as two's complement
to_signed(bits, u) == IF bits > 0 /\ u >= 2 ^ (bits - 1) THEN u - (2 ^ bits) ELSE u

\* bitreader.read_signed(bits)
read_signed(data, pos, bits) ==
  IF pos + bits > 8 * Len(data) THEN [st |-> "io", val |-> 0, pos |-> pos]
  ELSE [st |-> "ok", val |-> to_signed(bits, bits_from(data, pos) % (2 ^ bits)), pos |-> pos + bits]

(***************************************************************************)
(* huffman.rs: reading a symbol.  st is "ok", "io" (HuffmanError::IOError) *)
(* or "dead" (HuffmanError::DecodeError), or "wrap" where                  *)
(* max_bits - bit_pos is taken with bit_pos > max_bits: an unsigned        *)
(* subtraction that panics in a build with overflow checks and wraps in a  *)
(* build without.                                                          *)
(***************************************************************************)
RECURSIVE read_slow_from(_, _, _)
read_slow_from(node, data, pos) ==
  IF node.ch # NO_CH THEN [st |-> "ok", val |-> node.ch, pos |-> pos]
  ELSE IF pos + 1 > 8 * Len(data) THEN [st |-> "io", val |-> 0, pos |-> pos]
  ELSE IF ~node.inner THEN [st |-> "dead", val |-> 0, pos |-> pos + 1]
  ELSE IF bits_from(data, pos) % 2 = 1 THEN read_slow_from(node.right, data, pos + 1)
  ELSE read_slow_from(node.left, data, pos + 1)

read_slow(self, data, pos) == read_slow_from(self.root, data, pos)

\* a faulty read: it does not seek back over the bits read behind the code
huffman_read_code_whole(self, data, pos, read_len, c) ==
  IF c.len = 0 THEN read_slow(self, data, pos)
  ELSE [st |-> "ok", val |-> c.symbol, pos |-> pos + read_len]

\* the part of read after cur has been read: c = self.dec_table[cur]
huffman_read_code(self, data, pos, read_len, c) ==
  IF c.len = 0 THEN read_slow(self, data, pos)
  ELSE [st |-> "ok", val |-> c.symbol, pos |-> (pos + read_len) - (read_len - c.len)]

huffman_read(self, data, pos, max_bits) ==
  IF pos > max_bits THEN [st |-> "wrap", val |-> 0, pos |-> pos]
  ELSE huffman_read_code(self, data, pos, Min(max_bits - pos, 8),
         self.dec_table[(bits_from(data, pos) % (2 ^ Min(max_bits - pos, 8))) + 1])

(***************************************************************************)
(* dec.rs: the coefficient loop of decode_iframe and decode_pframe.        *)
(* s = [st, pos, out_idx, coefficients]; st is "run" while the loop runs,  *)
(* "ok" once out_idx has reached the end, "io" for a returned error,       *)
(* "panic" for unreachable!() and for an index past the end, "wrap" as     *)
(* above, and "hang" for an iteration that changes nothing, which the loop *)
(* then repeats for ever.                                                  *)
(***************************************************************************)
coeff_fail(s, st) == [s EXCEPT !.st = IF st = "dead" THEN "panic" ELSE st]

\* coefficients[out_idx] = coeff; out_idx += 1
coeff_store(s, out_idx, r) ==
  IF r.st # "ok" THEN coeff_fail(s, r.st)
  ELSE IF out_idx >= Len(s.coefficients) THEN [s EXCEPT !.st = "panic"]
  ELSE [st |-> "run", pos |-> r.pos, out_idx |-> out_idx + 1,
        coefficients |-> [s.coefficients EXCEPT ![out_idx + 1] = r.val]]

\* after num_bits has been read
coeff_value(s, data, out_idx, r) ==
  IF r.st # "ok" THEN coeff_fail(s, r.st)
  ELSE IF r.val > 0 THEN coeff_store(s, out_idx, read_signed(data, r.pos, r.val))
  ELSE IF r.pos = s.pos /\ out_idx = s.out_idx THEN [s EXCEPT !.st = "hang"]
  ELSE [s EXCEPT !.pos = r.pos, !.out_idx = out_idx]

\* after num_zeroes has been read
coeff_zeroes(s, tree, data, max_bits, r) ==
  IF r.st # "ok" THEN coeff_fail(s, r.st)
  ELSE coeff_value(s, data, s.out_idx + r.val, huffman_read(tree, data, r.pos, max_bits))

\* one test of the while condition and, where it holds, one iteration
coeff_step(s, tree, data, max_bits) ==
  IF s.st # "run" THEN s
  ELSE IF s.out_idx >= Len(s.coefficients) THEN [s EXCEPT !.st = "ok"]
  ELSE coeff_zeroes(s, tree, data, max_bits, huffman_read(tree, data, s.pos, max_bits))

RECURSIVE coeff_loop(_, _, _, _, _)
coeff_then(s, tree, data, max_bits, n) ==
  IF s.st # "run" THEN s ELSE coeff_loop(s, tree, data, max_bits, n)

coeff_loop(s, tree, data, max_bits, n) ==
  IF n = 0 THEN s
  ELSE IF n = 1 THEN coeff_step(s, tree, data, max_bits)
  ELSE coeff_then(coeff_loop(s, tree, data, max_bits, n \div 2), tree, data, max_bits,
                  n - (n \div 2))

\* the whole loop: an iteration that is not the last either consumes a bit or advances
\* out_idx, so this many steps reach the end of every run that has one
read_coefficients(tree, data, pos, count) ==
  coeff_loop([st |-> "run", pos |-> pos, out_idx |-> 0,
              coefficients |-> Arr([i \in 1..count |-> 0])],
             tree, data, 8 * Len(data), count + (8 * Len(data)) + 2)

(***************************************************************************)
(* dec.rs: decode_iframe and decode_pframe.  Both give [st, framebuffer]:  *)
(* st is "ok" for Ok(()), "io" for a returned Err, "panic" for a failed    *)
(* unwrap, assert!, unreachable!() or index, and "wrap" and "hang" as in   *)
(* the coefficient loop.  The framebuffer is written only when st = "ok".  *)
(***************************************************************************)
\* for i in 0..16 { table[i] = bitreader.read::<u8>(8).unwrap() }
read_table(payload) == Arr([i \in 1..16 |-> payload[i]])

\* the i-th (from 0) chunk of coefficients.chunks_exact(64)
subblock_chunk(coefficients, i) == SubSeq(coefficients, (64 * i) + 1, (64 * i) + 64)

plane_blocks(plane) == (plane.width \div 16) * (plane.height \div 16)

\* deserialize_plane, taking its sub-blocks from chunk first on
deserialize_plane(width, height, coefficients, first, q_table, target) ==
  decode_plane_into(
    [width |-> width, height |-> height,
     blocks_wide |-> width \div 16, blocks_high |-> height \div 16,
     blocks |-> Arr([b \in 1..((width \div 16) * (height \div 16)) |->
                   << subblock_chunk(coefficients, first + (4 * (b - 1))),
                      subblock_chunk(coefficients, first + (4 * (b - 1)) + 1),
                      subblock_chunk(coefficients, first + (4 * (b - 1)) + 2),
                      subblock_chunk(coefficients, first + (4 * (b - 1)) + 3) >>])],
    q_table, target)

\* the three deserialize_plane calls
iframe_planes(fb, c, qtables, qy, qu, qv) ==
  [fb EXCEPT
     !.plane_y = deserialize_plane(fb.plane_y.width, fb.plane_y.height, c, 0,
                                   qtables[qy + 1], fb.plane_y),
     !.plane_u = deserialize_plane(fb.plane_u.width, fb.plane_u.height, c,
                                   4 * plane_blocks(fb.plane_y), qtables[qu + 1], fb.plane_u),
     !.plane_v = deserialize_plane(fb.plane_v.width, fb.plane_v.height, c,
                                   4 * (plane_blocks(fb.plane_y) + plane_blocks(fb.plane_u)),
                                   qtables[qv + 1], fb.plane_v)]

iframe_finish(self, r, qy, qu, qv) ==
  IF r.st # "ok" THEN [st |-> r.st, framebuffer |-> self.framebuffer]
  ELSE [st |-> "ok",
        framebuffer |-> iframe_planes(self.framebuffer, r.coefficients, self.qtables, qy, qu, qv)]

total_blocks(fb) == plane_blocks(fb.plane_y) + plane_blocks(fb.plane_u) + plane_blocks(fb.plane_v)

decode_iframe(self, payload) ==
  IF Len(payload) < 19 THEN [st |-> "panic", framebuffer |-> self.framebuffer]
  ELSE IF \E k \in 17..19 : payload[k] >= Len(self.qtables)
       THEN [st |-> "panic", framebuffer |-> self.framebuffer]
  ELSE iframe_finish(self,
         read_coefficients(from_table(read_table(payload)), payload, 8 * 19,
                           total_blocks(self.framebuffer) * 4 * 64),
         payload[17], payload[18], payload[19])

\* one pass of the block header loop; h = [st, pos, headers]
RECURSIVE read_block_headers(_, _, _)
\* a faulty header loop: its assertions leave out both ends of the vector range
header_mvec_exclusive(payload, h, n, has_coeff, x, y) ==
  IF x.st # "ok" \/ y.st # "ok" THEN [h EXCEPT !.st = "io"]
  ELSE IF ~(x.val > -16 /\ x.val < 16) THEN [h EXCEPT !.st = "panic"]
  ELSE IF ~(y.val > -16 /\ y.val < 16) THEN [h EXCEPT !.st = "panic"]
  ELSE read_block_headers(payload,
         [st |-> "ok", pos |-> y.pos,
          headers |-> Append(h.headers, [mvec_x |-> x.val, mvec_y |-> y.val,
                                         has_coeff |-> has_coeff = 1])], n - 1)

header_mvec(payload, h, n, has_coeff, x, y) ==
  IF x.st # "ok" \/ y.st # "ok" THEN [h EXCEPT !.st = "io"]
  ELSE IF ~(x.val >= -16 /\ x.val <= 16) THEN [h EXCEPT !.st = "panic"]
  ELSE IF ~(y.val >= -16 /\ y.val <= 16) THEN [h EXCEPT !.st = "panic"]
  ELSE read_block_headers(payload,
         [st |-> "ok", pos |-> y.pos,
          headers |-> Append(h.headers, [mvec_x |-> x.val, mvec_y |-> y.val,
                                         has_coeff |-> has_coeff = 1])], n - 1)

header_flags(payload, h, n, flags) ==
  IF flags.st # "ok" THEN [h EXCEPT !.st = "io"]
  ELSE IF flags.val % 2 = 1
       THEN header_mvec(payload, h, n, flags.val \div 2,
                        read_signed(payload, flags.pos, 7),
                        read_signed(payload, flags.pos + 7, 7))
  ELSE read_block_headers(payload,
         [st |-> "ok", pos |-> flags.pos,
          headers |-> Append(h.headers, [mvec_x |-> 0, mvec_y |-> 0,
                                         has_coeff |-> flags.val \div 2 = 1])], n - 1)

read_block_headers(payload, h, n) ==
  IF n = 0 \/ h.st # "ok" THEN h ELSE header_flags(payload, h, n, read_bits(payload, h.pos, 2))

\* the number of headers before index first (from 0) that have coefficients
coeff_blocks(headers, first) == Cardinality({k \in 1..first : headers[k].has_coeff})

\* deserialize_plane_delta, taking its headers from index first on
deserialize_plane_delta(width, height, headers, first, coefficients, q_table, target) ==
  decode_plane_delta_into(
    [width |-> width, height |-> height,
     blocks_wide |-> width \div 16, blocks_high |-> height \div 16,
     blocks |-> Arr([b \in 1..((width \div 16) * (height \div 16)) |->
        [motion_x |-> headers[first + b].mvec_x, motion_y |-> headers[first + b].mvec_y,
         subblocks |->
           IF headers[first + b].has_coeff
           THEN << subblock_chunk(coefficients, 4 * coeff_blocks(headers, first + b - 1)),
                   subblock_chunk(coefficients, (4 * coeff_blocks(headers, first + b - 1)) + 1),
                   subblock_chunk(coefficients, (4 * coeff_blocks(headers, first + b - 1)) + 2),
                   subblock_chunk(coefficients, (4 * coeff_blocks(headers, first + b - 1)) + 3) >>
           ELSE << >>]])],
    target, q_table)

pframe_planes(fb, headers, c, qtables, qy, qu, qv) ==
  [fb EXCEPT
     !.plane_y = deserialize_plane_delta(fb.plane_y.width, fb.plane_y.height, headers, 0, c,
                                         qtables[qy + 1], fb.plane_y),
     !.plane_u = deserialize_plane_delta(fb.plane_u.width, fb.plane_u.height, headers,
                                         plane_blocks(fb.plane_y), c, qtables[qu + 1],
                                         fb.plane_u),
     !.plane_v = deserialize_plane_delta(fb.plane_v.width, fb.plane_v.height, headers,
                                         plane_blocks(fb.plane_y) + plane_blocks(fb.plane_u), c,
                                         qtables[qv + 1], fb.plane_v)]

pframe_finish(self, headers, r, qy, qu, qv) ==
  IF r.st # "ok" THEN [st |-> r.st, framebuffer |-> self.framebuffer]
  ELSE [st |-> "ok",
        framebuffer |-> pframe_planes(self.framebuffer, headers, r.coefficients, self.qtables,
                                      qy, qu, qv)]

pframe_coefficients(self, payload, tree, h) ==
  IF h.st # "ok" THEN [st |-> h.st, framebuffer |-> self.framebuffer]
  ELSE pframe_finish(self, h.headers,
         read_coefficients(tree, payload, h.pos,
                           256 * coeff_blocks(h.headers, Len(h.headers))),
         payload[17], payload[18], payload[19])

decode_pframe(self, payload) ==
  IF Len(payload) < 16 THEN [st |-> "panic", framebuffer |-> self.framebuffer]
  ELSE IF \E k \in 17..19 : k <= Len(payload) /\ payload[k] >= Len(self.qtables)
                            /\ \A j \in 17..(k - 1) : payload[j] < Len(self.qtables)
       THEN [st |-> "panic", framebuffer |-> self.framebuffer]
  ELSE IF Len(payload) < 19 THEN [st |-> "io", framebuffer |-> self.framebuffer]
  ELSE pframe_coefficients(self, payload, from_table(read_table(payload)),
         read_block_headers(payload, [st |-> "ok", pos |-> 8 * 19, headers |-> << >>],
                            total_blocks(self.framebuffer)))

(***************************************************************************)
(* qoa.rs and the audio half of dec.rs.  An LMS is [history, weight], each *)
(* of QOA_LMS_LEN numbers.  A byte reader result is [st, val, pos] with    *)
(* pos counted in bytes.                                                   *)
(***************************************************************************)
QOA_SLICE_LEN == 20

QOA_LMS_LEN == 4

QOA_DEQUANT_TABLE ==
  << << 1, -1, 3, -3, 5, -5, 7, -7 >>,
     << 5, -5, 18, -18, 32, -32, 49, -49 >>,
     << 16, -16, 53, -53, 95, -95, 147, -147 >>,
     << 34, -34, 113, -113, 203, -203, 315, -315 >>,
     << 63, -63, 210, -210, 378, -378, 588, -588 >>,
     << 104, -104, 345, -345, 621, -621, 966, -966 >>,
     << 158, -158, 528, -528, 950, -950, 1477, -1477 >>,
     << 228, -228, 760, -760, 1368, -1368, 2128, -2128 >>,
     << 316, -316, 1053, -1053, 1895, -1895, 2947, -2947 >>,
     << 422, -422, 1405, -1405, 2529, -2529, 3934, -3934 >>,
     << 548, -548, 1828, -1828, 3290, -3290, 5117, -5117 >>,
     << 696, -696, 2320, -2320, 4176, -4176, 6496, -6496 >>,
     << 868, -868, 2893, -2893, 5207, -5207, 8099, -8099 >>,
     << 1064, -1064, 3548, -3548, 6386, -6386, 9933, -9933 >>,
     << 1286, -1286, 4288, -4288, 7718, -7718, 12005, -12005 >>,
     << 1536, -1536, 5120, -5120, 9216, -9216, 14336, -14336 >> >>

lms_update(self, sample, residual) ==
  [history |-> << self.history[2], self.history[3], self.history[4], sample >>,
   weight |-> Arr([i \in 1..QOA_LMS_LEN |->
                 self.weight[i] + (IF self.history[i] < 0 THEN -Shr(residual, 4)
                                   ELSE Shr(residual, 4))])]

qoa_lms_predict(lms) ==
  Shr((lms.weight[1] * lms.history[1]) + (lms.weight[2] * lms.history[2])
      + (lms.weight[3] * lms.history[3]) + (lms.weight[4] * lms.history[4]), 13)

\* reader.read_u16::<LittleEndian>() and read_i16
read_u16(data, pos) ==
  IF pos + 2 > Len(data) THEN [st |-> "io", val |-> 0, pos |-> pos]
  ELSE [st |-> "ok", val |-> data[pos + 1] + (256 * data[pos + 2]), pos |-> pos + 2]

read_i16(data, pos) ==
  IF pos + 2 > Len(data) THEN [st |-> "io", val |-> 0, pos |-> pos]
  ELSE [st |-> "ok", val |-> to_signed(16, data[pos + 1] + (256 * data[pos + 2])),
        pos |-> pos + 2]

\* the LMS state of one channel: four history and four weight values from byte pos on
read_lms(data, pos) ==
  [history |-> Arr([i \in 1..QOA_LMS_LEN |-> read_i16(data, pos + (2 * (i - 1))).val]),
   weight |-> Arr([i \in 1..QOA_LMS_LEN |-> read_i16(data, pos + 8 + (2 * (i - 1))).val])]

\* one decoded sample: a = [lms, buf]; the slice is the 8 bytes from byte pos on, read
\* as a little-endian u64, and j the sample's index in the slice
slice_sample_store(a, i, predicted, dequantized) ==
  [lms |-> lms_update(a.lms, Clamp(predicted + dequantized, -32768, 32767), dequantized),
   buf |-> [a.buf EXCEPT ![i + 1] = Clamp(predicted + dequantized, -32768, 32767)]]

slice_sample(a, data, pos, j, i) ==
  slice_sample_store(a, i, qoa_lms_predict(a.lms),
    QOA_DEQUANT_TABLE[(data[pos + 1] % 16) + 1]
                     [(bits_from(SubSeq(data, pos + 1, pos + 8), 4 + (3 * j)) % 8) + 1])

\* for i in slice_start..slice_end, from sample i on
RECURSIVE slice_samples(_, _, _, _, _, _)
slice_samples(a, data, pos, slice_start, i, slice_end) ==
  IF i >= slice_end THEN a
  ELSE slice_samples(slice_sample(a, data, pos, i - slice_start, i), data, pos, slice_start,
                     i + 1, slice_end)

\* f = [st, pos, lmses, audio, samples]: one slice of the frame
frame_slice_store(f, ch, a) ==
  [f EXCEPT !.pos = @ + 8, !.lmses[ch] = a.lms, !.audio[ch] = a.buf]

frame_slice(f, data, channels, slice_idx) ==
  IF channels = 0 THEN [f EXCEPT !.st = "panic"]
  ELSE IF f.pos + 8 > Len(data) THEN [f EXCEPT !.st = "io"]
  ELSE frame_slice_store(f, (slice_idx % channels) + 1,
         slice_samples([lms |-> f.lmses[(slice_idx % channels) + 1],
                        buf |-> f.audio[(slice_idx % channels) + 1]],
                       data, f.pos, (slice_idx \div channels) * QOA_SLICE_LEN,
                       (slice_idx \div channels) * QOA_SLICE_LEN,
                       Clamp(((slice_idx \div channels) * QOA_SLICE_LEN) + QOA_SLICE_LEN, 0,
                             f.samples)))

\* for slice_idx in 0..slice_count: the n slices from slice_idx on, in halves
RECURSIVE frame_slices(_, _, _, _, _)
frame_slices_then(f, data, channels, slice_idx, n) ==
  IF f.st = "ok" THEN frame_slices(f, data, channels, slice_idx, n) ELSE f

frame_slices(f, data, channels, slice_idx, n) ==
  IF n = 0 THEN f
  ELSE IF n = 1 THEN frame_slice(f, data, channels, slice_idx)
  ELSE frame_slices_then(frame_slices(f, data, channels, slice_idx, n \div 2),
                         data, channels, slice_idx + (n \div 2), n - (n \div 2))

\* read_audio_frame up to its loop over the slices: samples, slice_count, the LMS
\* state of every channel and the zeroed sample buffers
read_frame_header(data, pos, channels) ==
  IF pos + 4 > Len(data) \/ pos + 4 + (16 * channels) > Len(data)
  THEN [st |-> "io", pos |-> pos, lmses |-> << >>, audio |-> << >>, samples |-> 0]
  ELSE [st |-> "ok", pos |-> pos + 4 + (16 * channels),
        lmses |-> Arr([c \in 1..channels |-> read_lms(data, pos + 4 + (16 * (c - 1)))]),
        audio |-> Arr([c \in 1..channels |-> Arr([k \in 1..read_u16(data, pos).val |-> 0])]),
        samples |-> read_u16(data, pos).val]

read_audio_frame(data, pos, channels) ==
  IF read_frame_header(data, pos, channels).st # "ok"
  THEN read_frame_header(data, pos, channels)
  ELSE frame_slices(read_frame_header(data, pos, channels), data, channels, 0,
                    read_u16(data, pos + 2).val)

\* self.audio_buf.resize(total_len, 0)
vec_resize(v, len) == Arr([k \in 1..len |-> IF k <= Len(v) THEN v[k] ELSE 0])

\* d = [st, pos, read_samples, audio_buf]: the unzip of one frame into the audio buffer
audio_unzip(d, f, samples, channels) ==
  IF f.st # "ok" THEN [d EXCEPT !.st = f.st]
  ELSE IF channels = 0 THEN [d EXCEPT !.st = "panic"]
  ELSE IF f.samples > 0 /\ (((d.read_samples + f.samples) - 1) * channels) + channels
                           > Len(d.audio_buf)
       THEN [d EXCEPT !.st = "panic"]
  ELSE [st |-> "ok", pos |-> f.pos, read_samples |-> d.read_samples + f.samples,
        audio_buf |-> Arr([k \in 1..Len(d.audio_buf) |->
           IF /\ (k - 1) \div channels >= d.read_samples
              /\ (k - 1) \div channels < d.read_samples + f.samples
           THEN f.audio[((k - 1) % channels) + 1][(((k - 1) \div channels) - d.read_samples) + 1]
           ELSE d.audio_buf[k]])]

\* while read_samples < samples: n bounds the frames a payload of its length can hold
RECURSIVE audio_frames(_, _, _, _, _)
audio_frames(d, data, samples, channels, n) ==
  IF d.st # "ok" \/ d.read_samples >= samples THEN d
  ELSE IF n = 0 THEN [d EXCEPT !.st = "io"]
  ELSE audio_frames(audio_unzip(d, read_audio_frame(data, d.pos, channels), samples, channels),
                    data, samples, channels, n - 1)

\* decode_audio: [st, audio_buf], the buffer as the call leaves it
decode_audio(self, payload) ==
  IF Len(payload) < 2 THEN [st |-> "io", audio_buf |-> self.audio_buf]
  ELSE audio_frames([st |-> "ok", pos |-> 2, read_samples |-> 0,
                     audio_buf |-> vec_resize(self.audio_buf,
                                              read_u16(payload, 0).val * self.channels)],
                    payload, read_u16(payload, 0).val, self.channels,
                    (Len(payload) \div 4) + 1)

(***************************************************************************)
(* qoa.rs and the audio half of enc.rs.  The squared errors of the scale   *)
(* factor search are i64 in the code; they are held here as [hi, lo] with  *)
(* the value hi * 65536 + lo and lo in 0..65535.                           *)
(***************************************************************************)
QOA_SLICES_PER_FRAME == 256

QOA_FRAME_LEN == QOA_SLICES_PER_FRAME * QOA_SLICE_LEN

QOA_QUANT_TABLE == << 7, 7, 7, 5, 5, 3, 3, 1, 0, 0, 2, 2, 4, 4, 6, 6, 6 >>

QOA_RECIPROCAL_TABLE ==
  << 65536, 9363, 3121, 1457, 781, 475, 311, 216, 156, 117, 90, 71, 57, 47, 39, 32 >>

\* i64::MAX: above every sum of twenty squared errors
I64_MAX == [hi |-> 2147483647, lo |-> 65535]

wide_zero == [hi |-> 0, lo |-> 0]

\* error * error for an error of at most 17 bits
wide_square(e) ==
  [hi |-> ((Abs(e) \div 256) * (Abs(e) \div 256))
          + (((2 * (Abs(e) \div 256) * (Abs(e) % 256) * 256)
              + ((Abs(e) % 256) * (Abs(e) % 256))) \div 65536),
   lo |-> ((2 * (Abs(e) \div 256) * (Abs(e) % 256) * 256)
           + ((Abs(e) % 256) * (Abs(e) % 256))) % 65536]

wide_add(a, b) ==
  [hi |-> a.hi + b.hi + ((a.lo + b.lo) \div 65536), lo |-> (a.lo + b.lo) % 65536]

wide_less(a, b) == b.hi > a.hi \/ (b.hi = a.hi /\ b.lo > a.lo)

\* v.wrapping_mul(reciprocal) in 32 bits; only the reciprocal 65536 takes a residual
\* past 32 bits
wrapping_mul(v, reciprocal) ==
  IF reciprocal = 65536 THEN to_signed(16, v % 65536) * 65536 ELSE v * reciprocal

signum(v) == IF v > 0 THEN 1 ELSE IF v < 0 THEN -1 ELSE 0

\* n + sign(v) - sign(n): round away from 0
qoa_div_round(v, n) == (n + signum(v)) - signum(n)

qoa_div(v, scalefactor) ==
  qoa_div_round(v, Shr(wrapping_mul(v, QOA_RECIPROCAL_TABLE[scalefactor + 1]) + 32768, 16))

\* LMS { weight: [0, 0, -(1 << 13), 1 << 14], history: [0, 0, 0, 0] }
lms_init == [history |-> << 0, 0, 0, 0 >>, weight |-> << 0, 0, -8192, 16384 >>]

lms_zero == [history |-> << 0, 0, 0, 0 >>, weight |-> << 0, 0, 0, 0 >>]

\* a faulty pass: the break leaves the error of the samples taken before it
candidate_sample_unscored(cand, best_err, sample, scalefactor) ==
  LET predicted == qoa_lms_predict(cand.lms)
      residual == sample - predicted
      scaled == qoa_div(residual, scalefactor)
      clamped == Clamp(scaled, -8, 8)
      quantized == QOA_QUANT_TABLE[clamped + 9]
      dequantized == QOA_DEQUANT_TABLE[scalefactor + 1][quantized + 1]
      reconstructed == Clamp(predicted + dequantized, -32768, 32767)
      current_error == wide_add(cand.err, wide_square(sample - reconstructed))
  IN IF wide_less(best_err, current_error)
     THEN [cand EXCEPT !.broke = TRUE]
     ELSE [lms |-> lms_update(cand.lms, reconstructed, dequantized),
           slice |-> Append(cand.slice, quantized),
           recon |-> Append(cand.recon, reconstructed),
           err |-> current_error, broke |-> FALSE]

\* one pass of: for _ in 0..slice_len { ... }; cand = [lms, slice, recon, err, broke],
\* recon being the reconstructed values of the samples taken so far
candidate_sample(cand, best_err, sample, scalefactor) ==
  LET predicted == qoa_lms_predict(cand.lms)
      residual == sample - predicted
      scaled == qoa_div(residual, scalefactor)
      clamped == Clamp(scaled, -8, 8)
      quantized == QOA_QUANT_TABLE[clamped + 9]
      dequantized == QOA_DEQUANT_TABLE[scalefactor + 1][quantized + 1]
      reconstructed == Clamp(predicted + dequantized, -32768, 32767)
      current_error == wide_add(cand.err, wide_square(sample - reconstructed))
  IN IF wide_less(best_err, current_error)
     THEN [cand EXCEPT !.err = current_error, !.broke = TRUE]
     ELSE [lms |-> lms_update(cand.lms, reconstructed, dequantized),
           slice |-> Append(cand.slice, quantized),
           recon |-> Append(cand.recon, reconstructed),
           err |-> current_error, broke |-> FALSE]

\* for _ in 0..slice_len: the n samples from index idx (from 0) on, in halves, up to
\* the break
RECURSIVE candidate_loop(_, _, _, _, _, _)
candidate_loop(cand, sampledata, idx, n, best_err, scalefactor) ==
  IF n = 0 \/ cand.broke THEN cand
  ELSE IF n = 1 THEN candidate_sample(cand, best_err, sampledata[idx + 1], scalefactor)
  ELSE candidate_loop(candidate_loop(cand, sampledata, idx, n \div 2, best_err, scalefactor),
                      sampledata, idx + (n \div 2), n - (n \div 2), best_err, scalefactor)

slice_candidate(sampledata, idx, slice_len, lms, scalefactor, best_err) ==
  candidate_loop([lms |-> lms, slice |-> << >>, recon |-> << >>, err |-> wide_zero,
                  broke |-> FALSE],
                 sampledata, idx, slice_len, best_err, scalefactor)

\* for scalefactor in 0..16, from scalefactor on; best = [err, slice, scalefactor, lms,
\* recon], and scalefactor_keep is: if current_error < best_err { ... } and the next pass
RECURSIVE scalefactor_search(_, _, _, _, _, _)
scalefactor_keep(best, cand, sampledata, idx, slice_len, lms, scalefactor) ==
  IF wide_less(cand.err, best.err)
  THEN scalefactor_search([err |-> cand.err, slice |-> cand.slice,
                           scalefactor |-> scalefactor, lms |-> cand.lms,
                           recon |-> cand.recon],
                          sampledata, idx, slice_len, lms, scalefactor + 1)
  ELSE scalefactor_search(best, sampledata, idx, slice_len, lms, scalefactor + 1)

scalefactor_search(best, sampledata, idx, slice_len, lms, scalefactor) ==
  IF scalefactor >= 16 THEN best
  ELSE scalefactor_keep(best,
         slice_candidate(sampledata, idx, slice_len, lms, scalefactor, best.err),
         sampledata, idx, slice_len, lms, scalefactor)

best_slice_of(sampledata, idx, slice_len, lms) ==
  scalefactor_search([err |-> I64_MAX, slice |-> << >>, scalefactor |-> 0, lms |-> lms_zero,
                      recon |-> << >>],
                     sampledata, idx, slice_len, lms, 0)

\* the u64 of a slice as its eight bytes, low byte first: the scale factor in the low
\* 4 bits and 3 bits for each quantized value after it
pack_slice(scalefactor, slice) ==
  bits_to_bytes(Arr([j \in 1..64 |->
     IF j <= 4 THEN ((scalefactor % 16) \div (2 ^ (j - 1))) % 2
     ELSE IF ((j - 5) \div 3) + 1 <= Len(slice)
          THEN ((slice[((j - 5) \div 3) + 1] % 8) \div (2 ^ ((j - 5) % 3))) % 2
     ELSE 0]))

\* one pass of the inner loop for channel c (from 0) at sample_index;
\* f = [st, lmses, slices, recon, pick]: pick holds what the search of this pass was
\* given and what it kept
frame_push(f, c, sample_index, slice_len, best) ==
  IF ~wide_less(best.err, I64_MAX) THEN [f EXCEPT !.st = "panic"]
  ELSE [f EXCEPT !.lmses[c + 1] = best.lms,
                 !.slices = Append(@, pack_slice(best.scalefactor, best.slice)),
                 !.recon[c + 1] = @ \o best.recon,
                 !.pick = [channel |-> c, start |-> sample_index, slice_len |-> slice_len,
                           lms |-> f.lmses[c + 1], best |-> best]]

frame_slot(f, audio, sample_offset, frame_len, k) ==
  frame_push(f, k % Len(audio), (k \div Len(audio)) * QOA_SLICE_LEN,
             Clamp(QOA_SLICE_LEN, 0, frame_len - ((k \div Len(audio)) * QOA_SLICE_LEN)),
             best_slice_of(audio[(k % Len(audio)) + 1],
                           ((k \div Len(audio)) * QOA_SLICE_LEN) + sample_offset,
                           Clamp(QOA_SLICE_LEN, 0,
                                 frame_len - ((k \div Len(audio)) * QOA_SLICE_LEN)),
                           f.lmses[(k % Len(audio)) + 1]))

\* the n passes from pass k on, in halves
RECURSIVE frame_slots(_, _, _, _, _, _)
frame_slots(f, audio, sample_offset, frame_len, k, n) ==
  IF n = 0 \/ f.st # "ok" THEN f
  ELSE IF n = 1 THEN frame_slot(f, audio, sample_offset, frame_len, k)
  ELSE frame_slots(frame_slots(f, audio, sample_offset, frame_len, k, n \div 2),
                   audio, sample_offset, frame_len, k + (n \div 2), n - (n \div 2))

\* the frame before its first pass, and the number of its passes
frame_open(audio, lmses) ==
  [st |-> "ok", lmses |-> lmses, slices |-> << >>,
   recon |-> Arr([c \in 1..Len(audio) |-> << >>]), pick |-> << >>]

frame_passes(audio, frame_len) ==
  (((frame_len + QOA_SLICE_LEN) - 1) \div QOA_SLICE_LEN) * Len(audio)

\* encode_audio_frame: [st, samples, lmses, slices, recon, lmses_after]; lmses is the
\* clone taken on entry, lmses_after what the caller's lmses hold on return
encode_audio_frame_result(frame_len, lmses, f) ==
  [st |-> f.st, samples |-> frame_len, lmses |-> lmses, slices |-> f.slices,
   recon |-> f.recon, lmses_after |-> f.lmses]

encode_audio_frame(audio, lmses, sample_offset, frame_len) ==
  encode_audio_frame_result(frame_len, lmses,
    frame_slots(frame_open(audio, lmses), audio, sample_offset, frame_len, 0,
                frame_passes(audio, frame_len)))

\* while sample_index < samples; p = [st, lmses, frames]
RECURSIVE audio_packet_frames(_, _, _)
audio_packet_push(p, audio, sample_index, frame) ==
  audio_packet_frames([st |-> frame.st, lmses |-> frame.lmses_after,
                       frames |-> Append(p.frames, frame)],
                      audio, sample_index + QOA_FRAME_LEN)

audio_packet_frames(p, audio, sample_index) ==
  IF p.st # "ok" \/ sample_index >= Len(audio[1]) THEN p
  ELSE audio_packet_push(p, audio, sample_index,
         encode_audio_frame(audio, p.lmses, sample_index,
                            Clamp(QOA_FRAME_LEN, 0, Len(audio[1]) - sample_index)))

\* writer.write_i16(history as i16) and writer.write_i16(weight as i16) of one LMS
write_lms(lms) ==
  concat_all(Arr([i \in 1..QOA_LMS_LEN |-> write_u16(lms.history[i] % 65536)]))
  \o concat_all(Arr([i \in 1..QOA_LMS_LEN |-> write_u16(lms.weight[i] % 65536)]))

write_audio_frame(frame) ==
  (write_u16(frame.samples) \o write_u16(Len(frame.slices) % 65536))
  \o concat_all(Arr([c \in 1..Len(frame.lmses) |-> write_lms(frame.lmses[c])]))
  \o concat_all(frame.slices)

audio_packet_bytes(samples, p) ==
  [st |-> p.st, frames |-> p.frames,
   bytes |-> IF p.st # "ok" THEN << >>
             ELSE write_u16(samples)
                  \o concat_all(Arr([k \in 1..Len(p.frames) |-> write_audio_frame(p.frames[k])]))]

\* write_audio_packet: [st, bytes, frames], st "panic" for audio[0] of no channels and
\* for an assert! that fails
\* let samples = audio[0].len(); assert!(samples < 65536); assert!(a.len() == samples)
audio_asserts(audio) ==
  /\ Len(audio) > 0
  /\ Len(audio[1]) < 65536
  /\ \A c \in 1..Len(audio) : Len(audio[c]) = Len(audio[1])

write_audio_packet(audio) ==
  IF ~audio_asserts(audio) THEN [st |-> "panic", bytes |-> << >>, frames |-> << >>]
  ELSE audio_packet_bytes(Len(audio[1]),
         audio_packet_frames([st |-> "ok", lmses |-> Arr([c \in 1..Len(audio) |-> lms_init]),
                              frames |-> << >>],
                             audio, 0))


(***************************************************************************)
(* enc.rs: the Encoder.  self = [width, height, framerate, samplerate,     *)
(* channels, prev_frame, px_err, qtable_inter, qtable_intra, frames,       *)
(* audio_buf]; frames holds [kind, f] with kind "I", "P" or "D".           *)
(***************************************************************************)
PFV_MAGIC == << 80, 70, 86, 73, 68, 69, 79, 0 >>

PFV_VERSION == 100

\* Q_TABLE.map(|x| (x * qscale).max(1.0)) with qscale = quality * 0.25, in quarters
scale_qtable(table, quality) == Arr([i \in 1..64 |-> Max(table[i] * quality, QUARTER)])

\* quality as f32 * 1.5, in quarters
px_err_of(quality) == quality * 6

encoder_new(width, height, framerate, samplerate, channels, quality) ==
  [width |-> width, height |-> height, framerate |-> framerate, samplerate |-> samplerate,
   channels |-> channels,
   prev_frame |-> frame_new_padded(width, height),
   px_err |-> px_err_of(quality),
   qtable_inter |-> scale_qtable(Q_TABLE_INTER, quality),
   qtable_intra |-> scale_qtable(Q_TABLE_INTRA, quality),
   frames |-> << >>,
   audio_buf |-> Arr([c \in 1..channels |-> << >>])]

\* the four assert!s of encode_iframe and encode_pframe
frame_fits(self, frame) ==
  /\ frame.width = self.width /\ frame.height = self.height
  /\ frame.plane_y.width = frame.width /\ frame.plane_y.height = frame.height
  /\ frame.plane_u.width = frame.width \div 2 /\ frame.plane_u.height = frame.height \div 2
  /\ frame.plane_v.width = frame.width \div 2 /\ frame.plane_v.height = frame.height \div 2

\* self.prev_frame.plane_*.blit(&dec_*, 0, 0, 0, 0, dec_*.width, dec_*.height)
blit_planes(prev, dec_y, dec_u, dec_v) ==
  [prev EXCEPT
     !.plane_y = blit(prev.plane_y, dec_y, 0, 0, 0, 0, dec_y.width, dec_y.height),
     !.plane_u = blit(prev.plane_u, dec_u, 0, 0, 0, 0, dec_u.width, dec_u.height),
     !.plane_v = blit(prev.plane_v, dec_v, 0, 0, 0, 0, dec_v.width, dec_v.height)]

encode_iframe_push(self, enc_y, enc_u, enc_v) ==
  [self EXCEPT
     !.frames = Append(@, [kind |-> "I", f |-> [y |-> enc_y, u |-> enc_u, v |-> enc_v]]),
     !.prev_frame = blit_planes(@, decode_plane(enc_y, self.qtable_intra),
                                decode_plane(enc_u, self.qtable_intra),
                                decode_plane(enc_v, self.qtable_intra))]

encode_iframe(self, frame) ==
  encode_iframe_push(self, encode_plane(frame.plane_y, self.qtable_intra, 0),
                     encode_plane(frame.plane_u, self.qtable_intra, 128),
                     encode_plane(frame.plane_v, self.qtable_intra, 128))

encode_pframe_push(self, enc_y, enc_u, enc_v) ==
  [self EXCEPT
     !.frames = Append(@, [kind |-> "P", f |-> [y |-> enc_y, u |-> enc_u, v |-> enc_v]]),
     !.prev_frame =
        blit_planes(@, decode_plane_delta(enc_y, self.prev_frame.plane_y, self.qtable_inter),
                    decode_plane_delta(enc_u, self.prev_frame.plane_u, self.qtable_inter),
                    decode_plane_delta(enc_v, self.prev_frame.plane_v, self.qtable_inter))]

encode_pframe(self, frame) ==
  encode_pframe_push(self,
    encode_plane_delta(frame.plane_y, self.prev_frame.plane_y, self.qtable_inter, self.px_err, 0),
    encode_plane_delta(frame.plane_u, self.prev_frame.plane_u, self.qtable_inter, self.px_err, 128),
    encode_plane_delta(frame.plane_v, self.prev_frame.plane_v, self.qtable_inter, self.px_err, 128))

\* a faulty encode_dropframe: it clears prev_frame
encode_dropframe_clearing(self) ==
  [self EXCEPT !.frames = Append(@, [kind |-> "D", f |-> << >>]),
               !.prev_frame = frame_new_padded(self.width, self.height)]

encode_dropframe(self) == [self EXCEPT !.frames = Append(@, [kind |-> "D", f |-> << >>])]

\* writer.write_u16(v as u16): the cast drops the fraction
write_qtable_entry(v) == write_u16(v \div QUARTER)

\* for v in qtable { writer.write_u16(v as u16) }
write_qtable(table) == concat_all(Arr([i \in 1..64 |-> write_qtable_entry(table[i])]))

write_header(self) ==
  PFV_MAGIC \o write_u32(PFV_VERSION) \o write_u16(self.width) \o write_u16(self.height)
  \o write_u16(self.framerate) \o write_u16(self.samplerate) \o write_u16(self.channels)
  \o write_u16(2) \o write_qtable(self.qtable_intra) \o write_qtable(self.qtable_inter)

write_frame_packet(fr) ==
  IF fr.kind = "I" THEN write_iframe_packet(fr.f)
  ELSE IF fr.kind = "P" THEN write_pframe_packet(fr.f)
  ELSE write_drop_packet

\* append_audio: audio.chunks_exact(channels) split into one buffer per channel, what is
\* left of audio after the last whole chunk being dropped; a chunk size of 0 panics
append_audio(self, audio) ==
  IF self.channels = 0 THEN [st |-> "panic", self |-> self]
  ELSE [st |-> "ok",
        self |-> [self EXCEPT !.audio_buf =
                    Arr([ch \in 1..self.channels |->
                           @[ch] \o Arr([k \in 1..(Len(audio) \div self.channels) |->
                                           audio[((k - 1) * self.channels) + ch]])])]]

\* (buffer_size as usize).max(self.audio_buf[0].len())
samples_to_write(self, w) == Max(self.samplerate \div 4, Len(w.audio_buf[1]))

\* one pass of: while sample_accum >= buffer_size { ... }.  buf.drain(0..samples_to_write)
\* panics for a range that ends past the buffer; packets lists the samples handed to
\* write_audio_packet
write_audio_pass(self, w, n, packet) ==
  IF \E ch \in 1..Len(w.audio_buf) : n > Len(w.audio_buf[ch]) THEN [w EXCEPT !.st = "panic"]
  ELSE IF packet.st # "ok" THEN [w EXCEPT !.st = packet.st]
  ELSE [w EXCEPT !.bytes = @ \o packet.bytes,
                 !.audio_buf = Arr([ch \in 1..Len(w.audio_buf) |->
                                      SubSeq(w.audio_buf[ch], n + 1, Len(w.audio_buf[ch]))]),
                 !.packets = Append(@, Arr([ch \in 1..Len(w.audio_buf) |->
                                              SubSeq(w.audio_buf[ch], 1, n)])),
                 !.accum = @ - ((self.samplerate \div 4) * self.framerate)]

\* while sample_accum >= buffer_size: with a buffer_size of 0 and nothing pending every
\* pass writes a packet of no samples and leaves sample_accum as it is, without end
RECURSIVE write_audio_loop(_, _)
write_audio_loop(self, w) ==
  IF w.st # "ok" \/ w.accum < (self.samplerate \div 4) * self.framerate THEN w
  ELSE IF self.samplerate \div 4 = 0 /\ Len(w.audio_buf[1]) = 0 THEN [w EXCEPT !.st = "hang"]
  ELSE write_audio_loop(self,
         write_audio_pass(self, w, samples_to_write(self, w),
           write_audio_packet(Arr([ch \in 1..Len(w.audio_buf) |->
             SubSeq(w.audio_buf[ch], 1,
                    Min(samples_to_write(self, w), Len(w.audio_buf[ch])))]))))

\* the audio step after one frame's packet; w = [st, bytes, accum, audio_buf, packets],
\* accum being sample_accum * framerate
write_audio_step(self, w) ==
  IF Len(w.audio_buf) = 0 THEN w
  ELSE write_audio_loop(self, [w EXCEPT !.accum = @ + self.samplerate])

write_frame_step(self, w, fr) ==
  write_audio_step(self, [w EXCEPT !.bytes = @ \o write_frame_packet(fr)])

RECURSIVE write_frames(_, _, _)
write_frames(self, w, k) ==
  IF k > Len(self.frames) \/ w.st # "ok" THEN w
  ELSE write_frames(self, write_frame_step(self, w, self.frames[k]), k + 1)

write_finish(w) == IF w.st = "ok" THEN [w EXCEPT !.bytes = @ \o write_eof] ELSE w

\* Encoder::write into an empty Vec: [st, bytes, accum, audio_buf, packets], audio_buf
\* being self.audio_buf as write leaves it
encoder_write(self) ==
  write_finish(write_frames(self, [st |-> "ok", bytes |-> write_header(self), accum |-> 0,
                                   audio_buf |-> self.audio_buf, packets |-> << >>], 1))

(***************************************************************************)
(* dec.rs: the Decoder.  self = [pos, width, height, framerate, samplerate,*)
(* channels, qtables, framebuffer, retframe, delta_accum, audio_buf, eof,  *)
(* reset_pos]; pos is the reader's position in the stream, in bytes.       *)
(* delta_accum is counted in half frame periods, so that the deltas the    *)
(* model passes, and every sum and difference of them, are exact as f64.   *)
(***************************************************************************)
NO_DECODER == [pos |-> 0]

\* the u16 at byte offset pos (from 0) of the header
header_u16(stream, pos) == stream[pos + 1] + (256 * stream[pos + 2])

\* reader.read_u32::<LittleEndian>(); a value past the largest integer held is read
\* as that integer, which is longer than every stream
read_u32_value(stream, pos) ==
  IF stream[pos + 4] >= 128 THEN 2147483647
  ELSE stream[pos + 1] + (256 * stream[pos + 2]) + (65536 * stream[pos + 3])
       + (16777216 * stream[pos + 4])

\* one q-table of the directory, `v as f32` of each u16, in quarters
read_qtable(stream, pos) ==
  Arr([i \in 1..64 |-> header_u16(stream, pos + (2 * (i - 1))) * QUARTER])

decoder_build(stream, width, height, num_qtable) ==
  IF (width % 2) # 0 \/ (height % 2) # 0 THEN [st |-> "panic", dec |-> NO_DECODER]
  ELSE [st |-> "ok",
        dec |-> [pos |-> 24 + (128 * num_qtable),
                 width |-> width, height |-> height,
                 framerate |-> header_u16(stream, 16),
                 samplerate |-> header_u16(stream, 18),
                 channels |-> header_u16(stream, 20),
                 qtables |-> Arr([t \in 1..num_qtable |->
                                read_qtable(stream, 24 + (128 * (t - 1)))]),
                 framebuffer |-> frame_new_padded(width, height),
                 retframe |-> frame_new(width, height),
                 delta_accum |-> 0, audio_buf |-> << >>, eof |-> FALSE,
                 reset_pos |-> 24 + (128 * num_qtable)]]

\* a faulty Decoder::new: it reads the version before it compares the magic
decoder_new_version_first(stream) ==
  IF Len(stream) < 12 THEN [st |-> "IOError", dec |-> NO_DECODER]
  ELSE IF read_u32_value(stream, 8) # PFV_VERSION THEN [st |-> "VersionError", dec |-> NO_DECODER]
  ELSE IF \E k \in 1..8 : stream[k] # PFV_MAGIC[k] THEN [st |-> "FormatError", dec |-> NO_DECODER]
  ELSE IF Len(stream) < 24 THEN [st |-> "IOError", dec |-> NO_DECODER]
  ELSE IF Len(stream) < 24 + (128 * header_u16(stream, 22))
       THEN [st |-> "IOError", dec |-> NO_DECODER]
  ELSE decoder_build(stream, header_u16(stream, 12), header_u16(stream, 14),
                     header_u16(stream, 22))

\* Decoder::new: [st, dec] with st "ok", "FormatError", "VersionError" or "IOError"
\* ("panic" for the assert! of VideoFrame::new)
decoder_new(stream) ==
  IF Len(stream) < 8 THEN [st |-> "IOError", dec |-> NO_DECODER]
  ELSE IF \E k \in 1..8 : stream[k] # PFV_MAGIC[k] THEN [st |-> "FormatError", dec |-> NO_DECODER]
  ELSE IF Len(stream) < 12 THEN [st |-> "IOError", dec |-> NO_DECODER]
  ELSE IF read_u32_value(stream, 8) # PFV_VERSION THEN [st |-> "VersionError", dec |-> NO_DECODER]
  ELSE IF Len(stream) < 24 THEN [st |-> "IOError", dec |-> NO_DECODER]
  ELSE IF Len(stream) < 24 + (128 * header_u16(stream, 22))
       THEN [st |-> "IOError", dec |-> NO_DECODER]
  ELSE decoder_build(stream, header_u16(stream, 12), header_u16(stream, 14),
                     header_u16(stream, 22))

decoder_reset(self) == [self EXCEPT !.eof = FALSE, !.pos = self.reset_pos]

\* the three blits of the framebuffer into retframe
blit_retframe(self) ==
  [self EXCEPT
     !.retframe.plane_y = blit(@, self.framebuffer.plane_y, 0, 0, 0, 0, @.width, @.height),
     !.retframe.plane_u = blit(@, self.framebuffer.plane_u, 0, 0, 0, 0, @.width, @.height),
     !.retframe.plane_v = blit(@, self.framebuffer.plane_v, 0, 0, 0, 0, @.width, @.height)]

(***************************************************************************)
(* advance_frame.  A call is recorded as c = [self, ret, events, reads,    *)
(* packets, ends]: the decoder as the call leaves it; ret "true", "false", *)
(* "err" (an Err is returned), "panic", "hang" (the call never returns) or *)
(* "wrap" (see huffman_read); events, the callbacks in order, each [cb,    *)
(* off, data] with off the offset of the packet that caused it; reads, the *)
(* number of reads made of the stream; packets, the packet headers read,   *)
(* each [type, len, off] (len -1 where the length could not be read); and  *)
(* ends, where a failed read may leave the reader: a Cursor leaves it      *)
(* where the read began or at the end of the stream, depending on the      *)
(* version of the standard library.                                        *)
(***************************************************************************)
call_begin(self) ==
  [self |-> self, ret |-> "run", events |-> << >>, reads |-> 0, packets |-> << >>,
   ends |-> {self.pos}]

call_fail(c, st, stream) ==
  [c EXCEPT !.ret = IF st = "io" THEN "err" ELSE st, !.ends = {c.self.pos}]

call_read_fail(c, stream, began) ==
  [c EXCEPT !.ret = "err", !.reads = @ + 1, !.ends = {began, Max(began, Len(stream))}]

\* a faulty advance_frame: it invokes on_video twice for a decoded frame
on_video_twice(c, off) ==
  [c EXCEPT !.ret = "true",
            !.events = (@ \o << [cb |-> "video", off |-> off, data |-> c.self.retframe] >>)
                         \o << [cb |-> "video", off |-> off, data |-> c.self.retframe] >>,
            !.ends = {c.self.pos}]

on_video(c, off) ==
  [c EXCEPT !.ret = "true",
            !.events = Append(@, [cb |-> "video", off |-> off, data |-> c.self.retframe]),
            !.ends = {c.self.pos}]

\* a faulty advance_frame: it returns after an audio packet
on_audio_returning(c, off) ==
  [c EXCEPT !.ret = "true",
            !.events = Append(@, [cb |-> "audio", off |-> off, data |-> c.self.audio_buf]),
            !.ends = {c.self.pos}]

on_audio(c, off) ==
  [c EXCEPT !.events = Append(@, [cb |-> "audio", off |-> off, data |-> c.self.audio_buf])]

video_decoded(c, stream, off, r) ==
  IF r.st # "ok" THEN call_fail(c, r.st, stream)
  ELSE on_video([c EXCEPT !.self = blit_retframe([c.self EXCEPT !.framebuffer = r.framebuffer])],
                off)

audio_decoded(c, stream, off, r) ==
  IF r.st # "ok" THEN call_fail([c EXCEPT !.self.audio_buf = r.audio_buf], r.st, stream)
  ELSE on_audio([c EXCEPT !.self.audio_buf = r.audio_buf], off)

\* let mut data = vec![0; packet_len]; self.reader.read_exact(&mut data)?
payload_of(stream, pos, len) == SubSeq(stream, pos + 1, pos + len)

\* self.reader.seek(SeekFrom::Current(packet_len as i64))
\* a faulty advance_frame: it leaves the payload of an unknown packet in the reader
skip_packet_never(c, packet_len) == c

skip_packet(c, packet_len) == [c EXCEPT !.self.pos = @ + packet_len]

RECURSIVE call_loop(_, _)
\* the match on packet_type; the reader stands after the packet header at off + 5
call_packet(c, stream, off, packet_type, packet_len) ==
  IF packet_type = 0 THEN [c EXCEPT !.self.eof = TRUE, !.ret = "false", !.ends = {c.self.pos}]
  ELSE IF packet_type = 1 /\ packet_len = 0 THEN [c EXCEPT !.ret = "true", !.ends = {c.self.pos}]
  ELSE IF packet_type \in {1, 2, 3} /\ c.self.pos + packet_len > Len(stream)
       THEN call_read_fail(c, stream, c.self.pos)
  ELSE IF packet_type = 1
       THEN video_decoded([c EXCEPT !.self.pos = @ + packet_len, !.reads = @ + 1], stream, off,
                          decode_iframe(c.self, payload_of(stream, c.self.pos, packet_len)))
  ELSE IF packet_type = 2
       THEN video_decoded([c EXCEPT !.self.pos = @ + packet_len, !.reads = @ + 1], stream, off,
                          decode_pframe(c.self, payload_of(stream, c.self.pos, packet_len)))
  ELSE IF packet_type = 3
       THEN call_loop(
              audio_decoded([c EXCEPT !.self.pos = @ + packet_len, !.reads = @ + 1], stream, off,
                            decode_audio(c.self, payload_of(stream, c.self.pos, packet_len))),
              stream)
  ELSE call_loop(skip_packet(c, packet_len), stream)

\* one pass of the loop: the two reads of the packet header
call_loop(c, stream) ==
  IF c.ret # "run" THEN c
  ELSE IF c.self.pos + 1 > Len(stream) THEN call_read_fail(c, stream, c.self.pos)
  ELSE IF c.self.pos + 5 > Len(stream)
       THEN call_read_fail([c EXCEPT !.reads = @ + 1,
                                     !.packets = Append(@, [type |-> stream[c.self.pos + 1],
                                                            len |-> -1, off |-> c.self.pos])],
                           stream, c.self.pos + 1)
  ELSE call_packet([c EXCEPT !.self.pos = @ + 5, !.reads = @ + 2,
                             !.packets = Append(@, [type |-> stream[c.self.pos + 1],
                                                    len |-> read_u32_value(stream, c.self.pos + 1),
                                                    off |-> c.self.pos])],
                   stream, c.self.pos, stream[c.self.pos + 1],
                   read_u32_value(stream, c.self.pos + 1))

\* a faulty advance_frame: it reads on with the EOF flag set
advance_frame_past_eof(self, stream) == call_loop(call_begin(self), stream)

advance_frame(self, stream) ==
  IF self.eof THEN [call_begin(self) EXCEPT !.ret = "false"]
  ELSE call_loop(call_begin(self), stream)

(***************************************************************************)
(* advance_delta.  A run is recorded as d = [self, ret, calls, ends]: ret  *)
(* "true", "false", "err", "panic", "hang" or "wrap", and calls the        *)
(* advance_frame calls made, in order.                                     *)
(***************************************************************************)
\* 1.0 / self.framerate as f64, in half frame periods; 1.0 / 0.0 is infinite
\* a faulty advance_delta: it takes half a frame period for a whole one
delta_per_frame_halved(self) == self.framerate \div self.framerate

delta_per_frame(self) == (2 * self.framerate) \div self.framerate

RECURSIVE delta_loop(_, _)
delta_called(d, stream, c) ==
  IF c.ret = "true"
  THEN delta_loop([d EXCEPT !.self = [c.self EXCEPT !.delta_accum = @ - delta_per_frame(c.self)],
                            !.calls = Append(@, c)], stream)
  ELSE [d EXCEPT !.self = c.self, !.ret = c.ret, !.calls = Append(@, c), !.ends = c.ends]

delta_loop(d, stream) ==
  IF d.self.framerate = 0 \/ d.self.delta_accum < delta_per_frame(d.self)
  THEN [d EXCEPT !.ret = "true", !.ends = {d.self.pos}]
  ELSE delta_called(d, stream, advance_frame(d.self, stream))

advance_delta(self, delta, stream) ==
  delta_loop([self |-> [self EXCEPT !.delta_accum = @ + delta], ret |-> "run",
              calls |-> << >>, ends |-> {self.pos}], stream)

(***************************************************************************)
(* The session: one Encoder is fed frames and written out, and one Decoder *)
(* is opened on the written stream and driven by its caller.               *)
(***************************************************************************)
\* the arguments of Encoder::new
Width == MB_SIZE

Height == MB_SIZE

Framerate == 32

Samplerate == 44100

Channels == 1

Qualities == {4, 5}

\* the frames handed to encode_iframe and encode_pframe: vertical bars, and a ramp
\* from top to bottom with flat chroma
FrameBars ==
  [width |-> Width, height |-> Height,
   plane_y |-> [width |-> Width, height |-> Height,
                pixels |-> Arr([i \in 1..(Width * Height) |->
                              IF ((i - 1) % 8) \in {0, 1, 6, 7} THEN 200 ELSE 60])],
   plane_u |-> plane_fill(plane_new(Width \div 2, Height \div 2), 128),
   plane_v |-> plane_fill(plane_new(Width \div 2, Height \div 2), 128)]

FrameRamp ==
  [width |-> Width, height |-> Height,
   plane_y |-> [width |-> Width, height |-> Height,
                pixels |-> Arr([i \in 1..(Width * Height) |-> 200 - (8 * ((i - 1) \div Width))])],
   plane_u |-> plane_fill(plane_new(Width \div 2, Height \div 2), 100),
   plane_v |-> plane_fill(plane_new(Width \div 2, Height \div 2), 150)]

\* the clip being encoded: its k-th frame
Clip(k) == IF k % 2 = 1 THEN FrameBars ELSE FrameRamp

\* the deltas handed to advance_delta, in half frame periods
Deltas == {0, 1, 4}

\* bounds of the exploration
MaxFrames == 2

MaxResets == 1

MaxAccum == 5

VARIABLES
  enc,      \* the Encoder
  refs,     \* prev_frame as it stood after each encode call
  stream,   \* the bytes Encoder::write produced
  status,   \* "encoding", "written", "open", or how the program ended
  dec,      \* the Decoder
  last,     \* the last call made of the Decoder: [op, arg, before, ret, calls]
  vlog,     \* the frames on_video has been handed since the last reset
  passes,   \* vlog as it stood at each reset made at the end of the stream
  nvid,     \* the video packets read since the last reset
  resets,   \* the number of reset calls
  shadow,   \* [stream, dec, last]: a second Decoder, on the stream as it was before
            \* packets of unknown type were put into it, given the same calls
  calc      \* a computation made outside of a session: [op, ...], the functions
            \* applied so far to an input, with what they returned

vars == << enc, refs, stream, status, dec, last, vlog, passes, nvid, resets, shadow, calc >>

NO_CALL == [op |-> "none", arg |-> 0, before |-> NO_DECODER, ret |-> "none", calls |-> << >>]

NO_SHADOW == [stream |-> << >>, dec |-> NO_DECODER, last |-> NO_CALL]

NO_CALC == [op |-> "none"]

Init ==
  /\ enc \in {encoder_new(Width, Height, Framerate, Samplerate, Channels, q) : q \in Qualities}
  /\ refs = << >>
  /\ stream = << >>
  /\ status = "encoding"
  /\ dec = NO_DECODER
  /\ last = NO_CALL
  /\ vlog = << >>
  /\ passes = << >>
  /\ nvid = 0
  /\ resets = 0
  /\ shadow = NO_SHADOW
  /\ calc = NO_CALC

Encoded(e) ==
  /\ enc' = e
  /\ refs' = Append(refs, e.prev_frame)
  /\ UNCHANGED << stream, status, dec, last, vlog, passes, nvid, resets, shadow, calc >>

EncodeIFrame ==
  /\ status = "encoding"
  /\ Len(enc.frames) < MaxFrames
  /\ frame_fits(enc, Clip(Len(enc.frames) + 1))
  /\ Encoded(encode_iframe(enc, Clip(Len(enc.frames) + 1)))

EncodePFrame ==
  /\ status = "encoding"
  /\ Len(enc.frames) < MaxFrames
  /\ frame_fits(enc, Clip(Len(enc.frames) + 1))
  /\ Encoded(encode_pframe(enc, Clip(Len(enc.frames) + 1)))

EncodeDropFrame ==
  /\ status = "encoding"
  /\ Len(enc.frames) < MaxFrames
  /\ Encoded(encode_dropframe(enc))

Written(w) ==
  /\ stream' = w.bytes
  /\ status' = IF w.st = "ok" THEN "written" ELSE w.st
  /\ enc' = [enc EXCEPT !.audio_buf = w.audio_buf]
  /\ UNCHANGED << refs, dec, last, vlog, passes, nvid, resets, shadow >>

Write ==
  /\ status = "encoding"
  /\ Written(encoder_write(enc))
  /\ UNCHANGED calc

Opened(r) ==
  /\ dec' = r.dec
  /\ status' = IF r.st = "ok" THEN "open" ELSE r.st
  /\ UNCHANGED << enc, refs, stream, last, vlog, passes, nvid, resets >>

Open ==
  /\ status = "written"
  /\ Opened(decoder_new(stream))
  /\ UNCHANGED << shadow, calc >>

\* the frames of the video callbacks of a run of calls, and the video packets it read
RECURSIVE calls_events(_, _)
calls_events(calls, k) ==
  IF k > Len(calls) THEN << >> ELSE calls[k].events \o calls_events(calls, k + 1)

RECURSIVE calls_packets(_, _)
calls_packets(calls, k) ==
  IF k > Len(calls) THEN << >> ELSE calls[k].packets \o calls_packets(calls, k + 1)

video_frames(events) ==
  [k \in 1..Cardinality({j \in 1..Len(events) : events[j].cb = "video"}) |->
     events[CHOOSE j \in 1..Len(events) :
              /\ events[j].cb = "video"
              /\ Cardinality({m \in 1..j : events[m].cb = "video"}) = k].data]

video_packets(packets) == Cardinality({j \in 1..Len(packets) : packets[j].type \in {1, 2}})

\* a call has returned or ended the program: ret is what the build makes of it
Called(op, arg, self, ret, calls, pos) ==
  /\ dec' = [self EXCEPT !.pos = pos]
  /\ status' = IF ret \in {"panic", "hang"} THEN ret ELSE "open"
  /\ last' = [op |-> op, arg |-> arg, before |-> dec, ret |-> ret, calls |-> calls]
  /\ vlog' = vlog \o video_frames(calls_events(calls, 1))
  /\ nvid' = nvid + video_packets(calls_packets(calls, 1))
  /\ UNCHANGED << enc, refs, stream, passes, resets >>

\* an unsigned subtraction that overflows panics or wraps, and the read that follows
\* the wrap fails
Outcomes(ret) == IF ret = "wrap" THEN {"panic", "err"} ELSE {ret}

AdvanceFrame ==
  /\ status = "open"
  /\ \E c \in {advance_frame(dec, stream)} : \E ret \in Outcomes(c.ret) : \E pos \in c.ends :
       Called("advance_frame", 0, c.self, ret, << [c EXCEPT !.ret = ret] >>, pos)
  /\ UNCHANGED << shadow, calc >>

AdvanceDelta ==
  /\ status = "open"
  /\ \E delta \in Deltas :
       /\ dec.delta_accum + delta <= MaxAccum
       /\ \E d \in {advance_delta(dec, delta, stream)} :
            \E ret \in Outcomes(d.ret) : \E pos \in d.ends :
              Called("advance_delta", delta, d.self, ret, d.calls, pos)
  /\ UNCHANGED << shadow, calc >>

WasReset ==
  /\ dec' = decoder_reset(dec)
  /\ last' = [op |-> "reset", arg |-> 0, before |-> dec, ret |-> "ok", calls |-> << >>]
  /\ passes' = IF dec.eof THEN Append(passes, vlog) ELSE passes
  /\ vlog' = << >>
  /\ nvid' = 0
  /\ resets' = resets + 1
  /\ UNCHANGED << enc, refs, stream, status >>

Reset ==
  /\ status = "open"
  /\ resets < MaxResets
  /\ WasReset
  /\ UNCHANGED << shadow, calc >>

Next ==
  \/ EncodeIFrame
  \/ EncodePFrame
  \/ EncodeDropFrame
  \/ Write
  \/ Open
  \/ AdvanceFrame
  \/ AdvanceDelta
  \/ Reset

Spec == Init /\ [][Next]_vars

(***************************************************************************)
(* Streams that hold more than Encoder::write puts into them.  A stream is *)
(* a file, and the file a Decoder is opened on may have been put together  *)
(* by another writer of the format: SpecMux starts from a stream the       *)
(* Encoder has written, puts audio packets and packets of unknown type     *)
(* into it, and gives every call to two Decoders, one on the stream with   *)
(* the unknown packets and one on the stream without them.                 *)
(***************************************************************************)
\* the session that encodes the clip's frames as kinds tells: s = [enc, refs]
clip_encoded(s, e) == [enc |-> e, refs |-> Append(s.refs, e.prev_frame)]

clip_step(s, kind, k) ==
  IF kind = "I" THEN clip_encoded(s, encode_iframe(s.enc, Clip(k)))
  ELSE IF kind = "P" THEN clip_encoded(s, encode_pframe(s.enc, Clip(k)))
  ELSE clip_encoded(s, encode_dropframe(s.enc))

RECURSIVE encode_clip(_, _, _)
encode_clip(s, kinds, k) ==
  IF k > Len(kinds) THEN s ELSE encode_clip(clip_step(s, kinds[k], k), kinds, k + 1)

MuxKinds == << "I", "P", "D" >>

MuxQuality == 4

MuxSessions ==
  {encode_clip([enc |-> encoder_new(Width, Height, Framerate, Samplerate, Channels, MuxQuality),
                refs |-> << >>], MuxKinds, 1)}

\* the length of the header of a stream
header_len(bytes) == 24 + (128 * header_u16(bytes, 22))

\* the packets of a stream from offset off on, up to its EOF packet: each [type, len, off]
RECURSIVE packets_from(_, _)
packets_from(bytes, off) ==
  IF off + 5 > Len(bytes) THEN << >>
  ELSE IF bytes[off + 1] = 0
       THEN << [type |-> 0, len |-> read_u32_value(bytes, off + 1), off |-> off] >>
  ELSE << [type |-> bytes[off + 1], len |-> read_u32_value(bytes, off + 1), off |-> off] >>
       \o packets_from(bytes, off + 5 + read_u32_value(bytes, off + 1))

stream_packets(bytes) == packets_from(bytes, header_len(bytes))

packet_count(bytes, types) ==
  Cardinality({k \in 1..Len(stream_packets(bytes)) : stream_packets(bytes)[k].type \in types})

insert_packet(bytes, at, packet) ==
  (SubSeq(bytes, 1, at) \o packet) \o SubSeq(bytes, at + 1, Len(bytes))

\* audio payloads: one of no samples, and one of a frame of two samples in one slice
\* (scale factor 3, residuals 2 and 5) with the LMS state the format starts from
AudioPayloads ==
  { << 0, 0 >>,
    << 2, 0,  2, 0,  1, 0,  0, 0, 0, 0, 0, 0, 0, 0,  0, 0, 0, 0, 0, 224, 0, 64,
       163, 2, 0, 0, 0, 0, 0, 0 >> }

\* packet types the format does not define, and payloads for them: none, and one that
\* reads as the header of an EOF packet
UnknownTypes == {4, 255}

UnknownPayloads == { << >>, << 0, 0, 0, 0, 0 >> }

MaxAudio == 1

MaxUnknown == 1

MuxInit ==
  /\ \E s \in MuxSessions :
       /\ enc = s.enc
       /\ refs = s.refs
       /\ stream = encoder_write(s.enc).bytes
       /\ shadow = [stream |-> encoder_write(s.enc).bytes, dec |-> NO_DECODER, last |-> NO_CALL]
  /\ status = "written"
  /\ dec = NO_DECODER
  /\ last = NO_CALL
  /\ vlog = << >>
  /\ passes = << >>
  /\ nvid = 0
  /\ resets = 0
  /\ calc = NO_CALC

\* an audio packet is put in front of a packet of the stream, before any unknown packet
InsertAudio ==
  /\ status = "written"
  /\ stream = shadow.stream
  /\ packet_count(stream, {3}) < MaxAudio
  /\ \E k \in 1..Len(stream_packets(stream)) : \E payload \in AudioPayloads :
       /\ stream' = insert_packet(stream, stream_packets(stream)[k].off, packet_bytes(3, payload))
       /\ shadow' = [shadow EXCEPT !.stream = stream']
  /\ UNCHANGED << enc, refs, status, dec, last, vlog, passes, nvid, resets, calc >>

\* a packet of unknown type is put in front of a packet of the stream
InsertUnknown ==
  /\ status = "written"
  /\ packet_count(stream, 4..255) < MaxUnknown
  /\ \E k \in 1..Len(stream_packets(stream)) :
       \E type \in UnknownTypes : \E payload \in UnknownPayloads :
         stream' = insert_packet(stream, stream_packets(stream)[k].off,
                                 packet_bytes(type, payload))
  /\ UNCHANGED << enc, refs, status, dec, last, vlog, passes, nvid, resets, shadow, calc >>

MuxOpen ==
  /\ status = "written"
  /\ Opened(decoder_new(stream))
  /\ shadow' = [shadow EXCEPT !.dec = decoder_new(shadow.stream).dec]
  /\ UNCHANGED calc

MuxAdvanceFrame ==
  /\ status = "open"
  /\ \E c \in {advance_frame(dec, stream)} : \E ret \in Outcomes(c.ret) : \E pos \in c.ends :
       Called("advance_frame", 0, c.self, ret, << [c EXCEPT !.ret = ret] >>, pos)
  /\ \E c \in {advance_frame(shadow.dec, shadow.stream)} :
       \E ret \in Outcomes(c.ret) : \E pos \in c.ends :
         shadow' = [shadow EXCEPT
                      !.dec = [c.self EXCEPT !.pos = pos],
                      !.last = [op |-> "advance_frame", arg |-> 0, before |-> shadow.dec,
                                ret |-> ret, calls |-> << [c EXCEPT !.ret = ret] >>]]
  /\ UNCHANGED calc

MuxReset ==
  /\ status = "open"
  /\ resets < MaxResets
  /\ WasReset
  /\ shadow' = [shadow EXCEPT
                  !.dec = decoder_reset(shadow.dec),
                  !.last = [op |-> "reset", arg |-> 0, before |-> shadow.dec, ret |-> "ok",
                            calls |-> << >>]]
  /\ UNCHANGED calc

MuxNext ==
  \/ InsertAudio
  \/ InsertUnknown
  \/ MuxOpen
  \/ MuxAdvanceFrame
  \/ MuxReset

SpecMux == MuxInit /\ [][MuxNext]_vars

(***************************************************************************)
(* Streams that are not well formed.  SpecBad starts from a stream the     *)
(* Encoder has written, damages it (a header byte is overwritten, the      *)
(* stream is cut short, the payload of a video packet is replaced) and     *)
(* opens a Decoder on what is left.  shadow.stream keeps the stream as it  *)
(* was written.                                                            *)
(***************************************************************************)
\* header bytes that are overwritten (from 1): of the magic, of the version and of the
\* number of q-tables, and the values written over them
CorruptAt == {1, 8, 9, 12, 23}

CorruptValues == {0, 255}

MaxCorrupt == 2

corrupted(bytes, original) ==
  Cardinality({k \in 1..Min(Len(bytes), 24) : bytes[k] # original[k]})

\* lengths a stream is cut to: inside the magic, the version, the fields after it and
\* the q-table directory, inside a packet header and inside a payload
CutLens(original) ==
  {0, 7, 8, 11, 12, 23, 24, header_len(original) - 1, header_len(original) + 3,
   header_len(original) + 30}

\* payloads put in the place of payload p: p cut inside the Huffman table, inside the
\* q-table indices, after them and inside the coefficients, p with a q-table index
\* outside of the directory, p with a Huffman table of no symbol, and p with a Huffman
\* table of symbol 0 alone
PayloadCuts == {10, 17, 19, 40}

\* the frequency table that gives symbol 0 a count and no other symbol
lone_zero_table(p) == [k \in 1..Len(p) |-> IF k = 1 THEN 1 ELSE IF k <= 16 THEN 0 ELSE p[k]] \o << >>

BadPayloads(p) ==
  {SubSeq(p, 1, n) : n \in PayloadCuts}
    \cup {[p EXCEPT ![17] = 200], [k \in 1..Len(p) |-> IF k <= 16 THEN 0 ELSE p[k]] \o << >>,
          lone_zero_table(p)}

replace_payload(bytes, packet, payload) ==
  (SubSeq(bytes, 1, packet.off) \o packet_bytes(packet.type, payload))
    \o SubSeq(bytes, (packet.off + 5) + packet.len + 1, Len(bytes))

CorruptHeader ==
  /\ status = "written"
  /\ corrupted(stream, shadow.stream) < MaxCorrupt
  /\ \E k \in CorruptAt : \E v \in CorruptValues :
       /\ k <= Len(stream)
       /\ stream' = [stream EXCEPT ![k] = v]
  /\ UNCHANGED << enc, refs, status, dec, last, vlog, passes, nvid, resets, shadow, calc >>

Truncate ==
  /\ status = "written"
  /\ Len(stream) = Len(shadow.stream)
  /\ \E n \in CutLens(shadow.stream) : stream' = SubSeq(stream, 1, n)
  /\ UNCHANGED << enc, refs, status, dec, last, vlog, passes, nvid, resets, shadow, calc >>

ReplacePayload ==
  /\ status = "written"
  /\ Len(stream) = Len(shadow.stream)
  /\ \E k \in 1..Len(stream_packets(shadow.stream)) :
       /\ stream_packets(shadow.stream)[k].type \in {1, 2}
       /\ stream_packets(shadow.stream)[k].len > 0
       /\ \E payload \in BadPayloads(payload_of(stream, stream_packets(shadow.stream)[k].off + 5,
                                                stream_packets(shadow.stream)[k].len)) :
            stream' = replace_payload(stream, stream_packets(shadow.stream)[k], payload)
  /\ UNCHANGED << enc, refs, status, dec, last, vlog, passes, nvid, resets, shadow, calc >>

BadNext ==
  \/ CorruptHeader
  \/ Truncate
  \/ ReplacePayload
  \/ Open
  \/ AdvanceFrame

SpecBad == MuxInit /\ [][BadNext]_vars

(***************************************************************************)
(* Packets longer than what their decoder reads of them.  SpecFraming      *)
(* starts from a stream the Encoder has written, lengthens the payload of  *)
(* one video packet by bytes that follow the last coefficient (the length  *)
(* of the packet counts them), inserts audio packets and packets of        *)
(* unknown type, and reads the stream with advance_frame.  calc keeps      *)
(* which packet was lengthened: [op, off, extra].                          *)
(***************************************************************************)
Paddings == { << 255 >>, << 0, 1, 0, 0, 0, 0 >> }

pad_payload(bytes, packet, extra) ==
  replace_payload(bytes, packet, payload_of(bytes, packet.off + 5, packet.len) \o extra)

PadPayload ==
  /\ status = "written"
  /\ calc = NO_CALC
  /\ \E k \in 1..Len(stream_packets(stream)) : \E extra \in Paddings :
       /\ stream_packets(stream)[k].type \in {1, 2}
       /\ stream_packets(stream)[k].len > 0
       /\ stream' = pad_payload(stream, stream_packets(stream)[k], extra)
       /\ calc' = [op |-> "padded", off |-> stream_packets(stream)[k].off, extra |-> extra]
  /\ UNCHANGED << enc, refs, status, dec, last, vlog, passes, nvid, resets, shadow >>

FramingNext ==
  \/ PadPayload
  \/ InsertAudio
  \/ InsertUnknown
  \/ MuxOpen
  \/ MuxAdvanceFrame

SpecFraming == MuxInit /\ [][FramingNext]_vars

(***************************************************************************)
(* Sessions with audio: encoders of several frame and sample rates, with   *)
(* and without channels, are handed samples by append_audio between their  *)
(* encode calls.  calc keeps what append_audio was handed and, once write  *)
(* has run, how it ended and the samples it handed to write_audio_packet.  *)
(***************************************************************************)
\* framerate, samplerate and channels of the encoders
WriteRates == { << 2, 8, 1 >>, << 8, 16, 1 >>, << 8, 16, 2 >>, << 8, 16, 0 >>, << 8, 3, 1 >> }

\* the lengths of the interleaved sample runs handed to append_audio
ChunkLens == {3, 8}

MaxAppended == 11

\* the run of n interleaved samples that follows the first start samples
audio_chunk(start, n) == Arr([i \in 1..n |-> 10 * (start + i)])

WriteInit ==
  /\ enc \in {encoder_new(Width, Height, r[1], r[2], r[3], MuxQuality) : r \in WriteRates}
  /\ refs = << >>
  /\ stream = << >>
  /\ status = "encoding"
  /\ dec = NO_DECODER
  /\ last = NO_CALL
  /\ vlog = << >>
  /\ passes = << >>
  /\ nvid = 0
  /\ resets = 0
  /\ shadow = NO_SHADOW
  /\ calc = [op |-> "session", chunks |-> << >>, appended |-> 0, st |-> "none",
             packets |-> << >>]

AppendAudio ==
  /\ status = "encoding"
  /\ \E n \in ChunkLens :
       /\ calc.appended + n <= MaxAppended
       /\ \E r \in {append_audio(enc, audio_chunk(calc.appended, n))} :
            /\ enc' = r.self
            /\ status' = IF r.st = "ok" THEN status ELSE r.st
       /\ calc' = [calc EXCEPT !.chunks = Append(@, audio_chunk(calc.appended, n)),
                               !.appended = @ + n]
  /\ UNCHANGED << refs, stream, dec, last, vlog, passes, nvid, resets, shadow >>

WriteLogged ==
  /\ status = "encoding"
  /\ \E w \in {encoder_write(enc)} :
       /\ Written(w)
       /\ calc' = [calc EXCEPT !.op = "wrote", !.st = w.st, !.packets = w.packets]

WriteNext ==
  \/ AppendAudio
  \/ EncodeIFrame
  \/ EncodePFrame
  \/ EncodeDropFrame
  \/ WriteLogged
  \/ Open
  \/ AdvanceFrame

SpecWrite == WriteInit /\ [][WriteNext]_vars

(***************************************************************************)
(* Computations made outside of a session.  The specifications below hold  *)
(* no Encoder and no Decoder: calc is an input drawn from a bounded set    *)
(* and what the functions of the library, applied to it one after the      *)
(* other, have returned.                                                   *)
(***************************************************************************)
session == << enc, refs, stream, status, dec, last, vlog, passes, nvid, resets, shadow >>

NoSession ==
  /\ enc = << >>
  /\ refs = << >>
  /\ stream = << >>
  /\ status = "none"
  /\ dec = NO_DECODER
  /\ last = NO_CALL
  /\ vlog = << >>
  /\ passes = << >>
  /\ nvid = 0
  /\ resets = 0
  /\ shadow = NO_SHADOW

(***************************************************************************)
(* SpecEntropy: a sequence of coefficients is run-length encoded, a tree   *)
(* is made for its symbols, the symbols are written as                     *)
(* write_iframe_packet writes them and read back by the decoder's loop.    *)
(***************************************************************************)
\* table[s.num_zeroes as usize] += 1; table[s.coeff_size as usize] += 1 of
\* rle_create_huffman, and self.codes[val as usize] of get_code: an index past the 16
\* entries (the debug_assert! before it fails in the builds that keep it)
rle_table_overrun(sequence) ==
  \E i \in 1..Len(sequence) : sequence[i].num_zeroes > 15 \/ sequence[i].coeff_size > 15

\* debug_assert!(num_zeroes.len > 0 && num_bits.len > 0) for every sq of the sequence
codes_asserted(tree, rle_sequence) ==
  \A i \in 1..Len(rle_sequence) :
    /\ get_code(tree, rle_sequence[i].num_zeroes).len > 0
    /\ get_code(tree, rle_sequence[i].coeff_size).len > 0

\* the bytes of: for sq in &rle_sequence { ... }; bitwriter.byte_align()
coeff_bytes(tree, rle_sequence) == bits_to_bytes(byte_align(rle_bits(tree, rle_sequence)))

\* the pieces input sequences are put together from: zeroes in runs of 1, 15 and 16, and
\* values of 2, 9, 10, 15, 16 and 17 bits with their sign
CoeffChunks ==
  { << 0 >>, Arr([j \in 1..15 |-> 0]), Arr([j \in 1..16 |-> 0]), << 1 >>, << -1 >>, << 255 >>,
    << -256 >>, << 16383 >>, << 16384 >>, << -32768 >> }

MaxChunks == 3

EntropyInit ==
  /\ NoSession
  /\ calc = [op |-> "data", data |-> << >>, chunks |-> 0]

ExtendData ==
  /\ calc.op = "data"
  /\ calc.chunks < MaxChunks
  /\ \E chunk \in CoeffChunks :
       calc' = [calc EXCEPT !.data = @ \o chunk, !.chunks = @ + 1]
  /\ UNCHANGED session

RleEncode ==
  /\ calc.op = "data"
  /\ calc' = [op |-> "rle_encode", data |-> calc.data, sequence |-> rle_encode(calc.data)]
  /\ UNCHANGED session

CreateHuffman ==
  /\ calc.op = "rle_encode"
  /\ calc' = IF rle_table_overrun(calc.sequence) THEN [calc EXCEPT !.op = "panic"]
             ELSE [op |-> "rle_create_huffman", data |-> calc.data, sequence |-> calc.sequence,
                   tree |-> rle_create_huffman(calc.sequence)]
  /\ UNCHANGED session

\* a build with debug assertions stops at a code of no bit, a build without writes it
WriteCoefficients ==
  /\ calc.op = "rle_create_huffman"
  /\ \/ /\ ~codes_asserted(calc.tree, calc.sequence)
        /\ calc' = [calc EXCEPT !.op = "panic"]
     \/ calc' = [op |-> "written", data |-> calc.data, sequence |-> calc.sequence,
                 tree |-> calc.tree, bytes |-> coeff_bytes(calc.tree, calc.sequence)]
  /\ UNCHANGED session

ReadCoefficients ==
  /\ calc.op = "written"
  /\ calc' = [op |-> "read", data |-> calc.data, sequence |-> calc.sequence, tree |-> calc.tree,
              bytes |-> calc.bytes,
              out |-> read_coefficients(calc.tree, calc.bytes, 0, Len(calc.data))]
  /\ UNCHANGED session

EntropyNext ==
  \/ ExtendData
  \/ RleEncode
  \/ CreateHuffman
  \/ WriteCoefficients
  \/ ReadCoefficients

SpecEntropy == EntropyInit /\ [][EntropyNext]_vars

(***************************************************************************)
(* SpecHuffman: a tree is made from a frequency table, and the code of a   *)
(* symbol, written into a stream after some bits and before others, is     *)
(* read with HuffmanTree::read.                                            *)
(***************************************************************************)
\* the frequencies the tables are filled with, by position k = 1..16
Profiles == {"flat", "ones", "rising", "falling", "doubling", "fibonacci"}

Fibonacci == << 1, 1, 2, 3, 5, 8, 13, 21, 34, 55, 89, 144, 233, 255, 255, 255 >>

profile_freq(profile, k) ==
  IF profile = "flat" THEN 255
  ELSE IF profile = "ones" THEN 1
  ELSE IF profile = "rising" THEN k
  ELSE IF profile = "falling" THEN 17 - k
  ELSE IF profile = "doubling" THEN Min(255, 2 ^ (k - 1))
  ELSE Fibonacci[k]

\* the table whose first n symbols (its last n, where rev holds) have the frequencies of
\* the profile and whose other symbols have none
table_of(profile, n, rev) ==
  Arr([k \in 1..16 |->
     IF rev THEN (IF k > 16 - n THEN profile_freq(profile, 17 - k) ELSE 0)
     ELSE (IF k <= n THEN profile_freq(profile, k) ELSE 0)])

Tables == {table_of(profile, n, rev) : profile \in Profiles, n \in 0..16, rev \in BOOLEAN}

\* the bits before the code in the stream, and the bits after it
Leads == { << >>, << 1, 0, 1 >>, << 1, 1, 1, 1, 1, 1, 1 >> }

Tails == { << >>, << 1 >>, << 0, 1, 1, 1, 1, 1, 1, 1, 1 >> }

code_bits(c) == bits_le(c.len, c.val)

HuffmanInit ==
  /\ NoSession
  /\ \E table \in Tables : calc = [op |-> "table", table |-> table]

FromTable ==
  /\ calc.op = "table"
  /\ calc' = [op |-> "from_table", table |-> calc.table, tree |-> from_table(calc.table)]
  /\ UNCHANGED session

\* tree.read(&mut bitreader, total_bits) at the first bit of the code of a symbol
ReadSymbol ==
  /\ calc.op = "from_table"
  /\ \E symbol \in 0..15 : \E lead \in Leads : \E tail \in Tails :
       /\ calc.table[symbol + 1] > 0
       /\ \E bytes \in {bits_to_bytes(byte_align(
                          (lead \o code_bits(get_code(calc.tree, symbol))) \o tail))} :
            calc' = [op |-> "read", table |-> calc.table, tree |-> calc.tree,
                     symbol |-> symbol, pos |-> Len(lead), bytes |-> bytes,
                     left |-> (8 * Len(bytes)) - (Len(lead) + get_code(calc.tree, symbol).len),
                     out |-> huffman_read(calc.tree, bytes, Len(lead), 8 * Len(bytes))]
  /\ UNCHANGED session

HuffmanNext ==
  \/ FromTable
  \/ ReadSymbol

SpecHuffman == HuffmanInit /\ [][HuffmanNext]_vars

(***************************************************************************)
(* SpecMotion: an Encoder is made for a picture of one or two macroblocks, *)
(* takes a first frame as an I-frame or keeps the reference it was made    *)
(* with, and encodes a second frame as a P-frame; the packet written for   *)
(* that frame is then decoded over the same reference.                     *)
(***************************************************************************)
MotionSizes == { << 16, 16 >>, << 32, 16 >>, << 16, 32 >> }

MotionQualities == {0, 4}

\* the pictures encoded: luma that repeats from one macroblock to the next (flat, bars
\* and rows, each at two positions), luma that does not (ramp), and flat chroma
Pictures == {"flat", "bars", "bars_left", "rows", "rows_up", "ramp"}

luma(picture, x, y) ==
  CASE picture = "flat" -> 128
    [] picture = "bars" -> IF x % 16 < 9 THEN 40 ELSE 200
    [] picture = "bars_left" -> IF x % 16 < 6 THEN 40 ELSE 200
    [] picture = "rows" -> IF y % 16 < 9 THEN 60 ELSE 180
    [] picture = "rows_up" -> IF y % 16 < 6 THEN 60 ELSE 180
    [] picture = "ramp" -> 10 + (4 * x) + (3 * y)

picture_frame(width, height, picture) ==
  [width |-> width, height |-> height,
   plane_y |-> [width |-> width, height |-> height,
                pixels |-> Arr([i \in 1..(width * height) |->
                              luma(picture, (i - 1) % width, (i - 1) \div width)])],
   plane_u |-> plane_fill(plane_new(width \div 2, height \div 2), 128),
   plane_v |-> plane_fill(plane_new(width \div 2, height \div 2), 128)]

\* the frame that shows a reference: its planes without their padding
shown_frame(reference, width, height) ==
  [width |-> width, height |-> height,
   plane_y |-> get_slice(reference.plane_y, 0, 0, width, height),
   plane_u |-> get_slice(reference.plane_u, 0, 0, width \div 2, height \div 2),
   plane_v |-> get_slice(reference.plane_v, 0, 0, width \div 2, height \div 2)]

\* the planes encode_pframe works on: img_copy of encode_plane_delta for Y, U and V
padded_frame(frame) ==
  [width |-> frame.width, height |-> frame.height,
   plane_y |-> pad_plane(frame.plane_y, 0),
   plane_u |-> pad_plane(frame.plane_u, 128),
   plane_v |-> pad_plane(frame.plane_v, 128)]

\* a Decoder for the stream of this Encoder whose framebuffer holds the reference
decoder_over(self, reference) ==
  [decoder_new(write_header(self)).dec EXCEPT !.framebuffer = reference]

\* the payload of a packet: what follows its type and length
packet_payload(packet) == SubSeq(packet, 6, Len(packet))

\* the block headers of a P-frame payload, as decode_pframe reads them
payload_headers(self, payload) ==
  read_block_headers(payload, [st |-> "ok", pos |-> 8 * 19, headers |-> << >>],
                     total_blocks(self.framebuffer))

MotionInit ==
  /\ NoSession
  /\ \E size \in MotionSizes, quality \in MotionQualities :
       calc = [op |-> "new",
               enc |-> encoder_new(size[1], size[2], Framerate, Samplerate, Channels, quality)]

\* encode_iframe of a picture
MotionIFrame ==
  /\ calc.op = "new"
  /\ \E picture \in Pictures :
       calc' = [op |-> "encode_iframe",
                enc |-> encode_iframe(calc.enc,
                                      picture_frame(calc.enc.width, calc.enc.height, picture))]
  /\ UNCHANGED session

\* encode_pframe of a picture, or of the frame that the reference shows
MotionPFrame ==
  /\ calc.op \in {"new", "encode_iframe"}
  /\ \E frame \in {picture_frame(calc.enc.width, calc.enc.height, picture) : picture \in Pictures}
                  \cup {shown_frame(calc.enc.prev_frame, calc.enc.width, calc.enc.height)} :
       calc' = [op |-> "encode_pframe", reference |-> calc.enc.prev_frame, frame |-> frame,
                enc |-> encode_pframe(calc.enc, frame)]
  /\ UNCHANGED session

\* the packet Encoder::write makes of the P-frame, and decode_pframe of its payload
MotionDecode ==
  /\ calc.op = "encode_pframe"
  /\ \E packet \in {write_pframe_packet(calc.enc.frames[Len(calc.enc.frames)].f)} :
       calc' = [op |-> "decode_pframe", reference |-> calc.reference, frame |-> calc.frame,
                enc |-> calc.enc, packet |-> packet,
                headers |-> payload_headers(decoder_over(calc.enc, calc.reference),
                                            packet_payload(packet)),
                out |-> decode_pframe(decoder_over(calc.enc, calc.reference),
                                      packet_payload(packet))]
  /\ UNCHANGED session

MotionNext ==
  \/ MotionIFrame
  \/ MotionPFrame
  \/ MotionDecode

SpecMotion == MotionInit /\ [][MotionNext]_vars


(***************************************************************************)
(* SpecQuant: a matrix of DCT coefficients is quantized by                 *)
(* DctMatrix8x8::encode and dequantized by DctMatrix8x8::decode with the   *)
(* same table.                                                             *)
(***************************************************************************)
\* the tables of an Encoder made with quality 0, 4 or 8, whose entries are whole numbers
QuantTables ==
  {scale_qtable(Q_TABLE_INTRA, quality) : quality \in {0, 4, 8}}
  \cup {scale_qtable(Q_TABLE_INTER, quality) : quality \in {0, 4, 8}}

\* coefficient levels, and the fraction below FP_BITS they are carried with
Levels == {-1000, -300, 75, 1000}

Fractions == {0, 37}

\* the index (from 0) of the one coefficient of a matrix that holds no other
Singles == {0, 1, 2, 8, 9, 36, 63}

\* matrices in row order: every coefficient at one level, the DC term alone (the
\* transform of a constant block), one coefficient alone, and a fall from the DC term
MatrixFull(level, fraction) == Arr([i \in 1..64 |-> Shl(level, FP_BITS) + fraction])

MatrixSingle(n, level, fraction) ==
  Arr([i \in 1..64 |-> IF i = n + 1 THEN Shl(level, FP_BITS) + fraction ELSE 0])

MatrixFall(level, fraction) ==
  Arr([i \in 1..64 |-> Shl(level - (TruncDiv(level, 70) * i), FP_BITS) + fraction])

Matrices ==
  {MatrixFull(0, 0)}
  \cup {MatrixFull(level, fraction) : level \in Levels, fraction \in Fractions}
  \cup {MatrixSingle(n, level, 0) : n \in Singles, level \in Levels}
  \cup {MatrixFall(level, fraction) : level \in Levels, fraction \in Fractions}

QuantInit ==
  /\ NoSession
  /\ \E m \in Matrices, q_table \in QuantTables :
       calc = [op |-> "matrix", m |-> m, q_table |-> q_table]

\* DctMatrix8x8::encode
QuantEncode ==
  /\ calc.op = "matrix"
  /\ calc' = [op |-> "encode", m |-> calc.m, q_table |-> calc.q_table,
              quantized |-> dct_encode(calc.m, calc.q_table)]
  /\ UNCHANGED session

\* DctMatrix8x8::decode
QuantDecode ==
  /\ calc.op = "encode"
  /\ calc' = [op |-> "decode", m |-> calc.m, q_table |-> calc.q_table,
              quantized |-> calc.quantized,
              out |-> dct_decode(calc.quantized, calc.q_table)]
  /\ UNCHANGED session

QuantNext ==
  \/ QuantEncode
  \/ QuantDecode

SpecQuant == QuantInit /\ [][QuantNext]_vars


(***************************************************************************)
(* SpecDct: a vector of eight samples, carried with FP_BITS fractional     *)
(* bits, is transformed by fast_dct8_transform and transformed back by     *)
(* fast_dct8_inverse_transform.                                            *)
(***************************************************************************)
\* sample levels: pixels, and pixels less 128 as encode_subblock passes them
SampleLevels == {-128, -1, 0, 1, 100, 127, 255}

\* the two levels of a vector that has an edge or a peak
SamplePairs == { << 0, 255 >>, << -128, 127 >>, << 100, 110 >> }

VecFlat(c) == Arr([i \in 1..8 |-> c])

\* lo up to sample k and hi after it
VecStep(k, pair) == Arr([i \in 1..8 |-> IF i <= k THEN pair[1] ELSE pair[2]])

\* hi at sample k and lo elsewhere
VecPeak(k, pair) == Arr([i \in 1..8 |-> IF i = k THEN pair[2] ELSE pair[1]])

\* lo and hi in turn
VecComb(pair) == Arr([i \in 1..8 |-> pair[1 + (i % 2)]])

\* first, first + step, ...
VecRamp(first, step) == Arr([i \in 1..8 |-> first + (step * (i - 1))])

Vectors ==
  {VecFlat(c) : c \in SampleLevels}
  \cup {VecStep(k, pair) : k \in 1..7, pair \in SamplePairs}
  \cup {VecPeak(k, pair) : k \in 1..8, pair \in SamplePairs}
  \cup {VecComb(pair) : pair \in SamplePairs}
  \cup {VecRamp(0, 10), VecRamp(255, -30), VecRamp(-128, 36)}

DctInit ==
  /\ NoSession
  /\ \E x \in Vectors : calc = [op |-> "vector", x |-> x]

\* fast_dct8_transform of the samples shifted left by FP_BITS
DctTransform ==
  /\ calc.op = "vector"
  /\ calc' = [op |-> "transform", x |-> calc.x,
              dct |-> fast_dct8_transform(Arr([i \in 1..8 |-> Shl(calc.x[i], FP_BITS)]))]
  /\ UNCHANGED session

\* fast_dct8_inverse_transform, and its output shifted right by FP_BITS
DctInverse ==
  /\ calc.op = "transform"
  /\ \E out \in {fast_dct8_inverse_transform(calc.dct)} :
       calc' = [op |-> "inverse", x |-> calc.x, dct |-> calc.dct, out |-> out,
                samples |-> Arr([i \in 1..8 |-> Shr(out[i], FP_BITS)])]
  /\ UNCHANGED session

DctNext ==
  \/ DctTransform
  \/ DctInverse

SpecDct == DctInit /\ [][DctNext]_vars


(***************************************************************************)
(* SpecParallel: the fan-out of encode_plane and of decode_plane_into.     *)
(* par_iter().map(..).collect() hands the macroblocks to the workers of a  *)
(* pool: a worker that is idle takes any item not yet taken, the item's    *)
(* result is stored at the item's index, and collect returns once every    *)
(* item has its result.  What follows the collect runs on the caller's     *)
(* thread.  calc = [op, job, workers, running, results, order]:            *)
(* running[w] is the item worker w holds (-1 when idle), results[x + 1]    *)
(* the result of item x (<< >> until it is stored), and order the items    *)
(* in the order they finished.                                             *)
(***************************************************************************)
MaxWorkers == 2

ParSizes == { << 32, 32 >>, << 24, 16 >> }

ParPictures == {"bars", "ramp"}

\* the q-table of the jobs: that of an Encoder made with quality 4
ParTable == scale_qtable(Q_TABLE_INTRA, MuxQuality)

\* a job of encode_plane: the plane, and img_copy as the macroblocks are cut from it
encode_job(plane) ==
  [kind |-> "encode_plane", plane |-> plane, img_copy |-> pad_plane(plane, 0),
   blocks_wide |-> pad_dim(plane.width) \div 16, blocks_high |-> pad_dim(plane.height) \div 16]

\* a job of decode_plane_into: the encoded plane and the target it is decoded into
decode_job(src) ==
  [kind |-> "decode_plane_into", src |-> src, target |-> plane_new(src.width, src.height),
   blocks_wide |-> src.blocks_wide, blocks_high |-> src.blocks_high]

ParJobs ==
  {encode_job(picture_frame(size[1], size[2], picture).plane_y) :
     size \in ParSizes, picture \in ParPictures}
  \cup {decode_job(encode_plane(picture_frame(size[1], size[2], picture).plane_y, ParTable, 0)) :
          size \in ParSizes, picture \in ParPictures}

\* the closure of the map, applied to item x (from 0)
par_item(job, x) ==
  IF job.kind = "encode_plane" THEN encode_block(plane_block(job.img_copy, x), ParTable)
  ELSE decode_block(job.src.blocks[x + 1], ParTable)

\* the pool stores the output of item x at index x
collect_store(results, x, out) == [results EXCEPT ![x + 1] = out]

\* what the function returns, or leaves in the target, after the collect
par_outcome(job, results) ==
  IF job.kind = "encode_plane"
  THEN [width |-> job.img_copy.width, height |-> job.img_copy.height,
        blocks_wide |-> job.blocks_wide, blocks_high |-> job.blocks_high, blocks |-> results]
  ELSE blit_results(job.target, results, job.blocks_wide, job.blocks_high)

ParInit ==
  /\ NoSession
  /\ \E job \in ParJobs, workers \in 1..MaxWorkers :
       calc = [op |-> "fan_out", job |-> job, workers |-> workers,
               running |-> Arr([w \in 1..workers |-> -1]),
               results |-> Arr([x \in 1..(job.blocks_wide * job.blocks_high) |-> << >>]),
               order |-> << >>]

\* an idle worker takes an item no worker has taken
ParTake ==
  /\ calc.op = "fan_out"
  /\ \E w \in 1..calc.workers, x \in 0..(Len(calc.results) - 1) :
       /\ calc.running[w] = -1
       /\ calc.results[x + 1] = << >>
       /\ \A v \in 1..calc.workers : calc.running[v] # x
       /\ calc' = [calc EXCEPT !.running[w] = x]
  /\ UNCHANGED session

\* a worker finishes its item
ParFinish ==
  /\ calc.op = "fan_out"
  /\ \E w \in 1..calc.workers :
       /\ calc.running[w] # -1
       /\ calc' = [calc EXCEPT
                     !.running[w] = -1,
                     !.results = collect_store(@, calc.running[w],
                                               par_item(calc.job, calc.running[w])),
                     !.order = Append(@, calc.running[w])]
  /\ UNCHANGED session

\* collect returns, and the function goes on to its end
ParJoin ==
  /\ calc.op = "fan_out"
  /\ \A x \in 1..Len(calc.results) : calc.results[x] # << >>
  /\ calc' = [op |-> "collected", job |-> calc.job, workers |-> calc.workers,
              running |-> calc.running, results |-> calc.results, order |-> calc.order,
              out |-> par_outcome(calc.job, calc.results)]
  /\ UNCHANGED session

ParNext ==
  \/ ParTake
  \/ ParFinish
  \/ ParJoin

SpecParallel == ParInit /\ [][ParNext]_vars


(***************************************************************************)
(* The fan-out of decode_plane_delta_into, with the reference plane as the *)
(* function holds it: the workers of the pool take the blocks as in        *)
(* SpecParallel, the closure reads refplane as it stands when the worker   *)
(* finishes, and after the collect the two blit_block loops run on the     *)
(* caller's thread, one block at a step.  calc = [op, src, before,         *)
(* refplane, workers, running, results, order, k]: before is refplane as   *)
(* the function was handed it, k the blocks blitted so far.                *)
(***************************************************************************)
\* the reference: a plane of two macroblocks that differ
DeltaReference == picture_frame(32, 16, "ramp").plane_y

\* the motion vectors of the first and of the second block: each reaches into the
\* other block's place
DeltaVectors == { << 0, 0 >>, << 8, -8 >>, << 16, -16 >> }

\* the sub-blocks of a block with coefficients: those of a flat residual of +24
DeltaResidual == encode_block(plane_fill(plane_new(MB_SIZE, MB_SIZE), 140), ParTable)

delta_plane(v, subblocks) ==
  [width |-> 32, height |-> 16, blocks_wide |-> 2, blocks_high |-> 1,
   blocks |-> << [motion_x |-> v[1], motion_y |-> 0, subblocks |-> subblocks],
                 [motion_x |-> v[2], motion_y |-> 0, subblocks |-> subblocks] >>]

DeltaPlanes == {delta_plane(v, subblocks) : v \in DeltaVectors, subblocks \in {<< >>, DeltaResidual}}

DeltaInit ==
  /\ NoSession
  /\ \E src \in DeltaPlanes, workers \in 1..MaxWorkers :
       calc = [op |-> "fan_out", src |-> src, before |-> DeltaReference,
               refplane |-> DeltaReference, workers |-> workers,
               running |-> Arr([w \in 1..workers |-> -1]),
               results |-> Arr([x \in 1..(src.blocks_wide * src.blocks_high) |-> << >>]),
               order |-> << >>, k |-> 0]

\* the closure of the map, applied to item x (from 0)
delta_item(src, refplane, x) ==
  decode_block_delta(src.blocks[x + 1], refplane, (x % src.blocks_wide) * 16,
                     (x \div src.blocks_wide) * 16, ParTable)

\* a faulty closure's end: the block is blitted into refplane as soon as it is decoded
DeltaStoredInPlace(w, x, block) ==
  calc' = [calc EXCEPT !.running[w] = -1,
                       !.results = collect_store(@, x, block),
                       !.order = Append(@, x),
                       !.refplane = blit_block(@, block, (x % calc.src.blocks_wide) * 16,
                                               (x \div calc.src.blocks_wide) * 16)]

\* worker w has decoded item x: the closure held refplane by a shared borrow
DeltaStored(w, x, block) ==
  calc' = [calc EXCEPT !.running[w] = -1,
                       !.results = collect_store(@, x, block),
                       !.order = Append(@, x)]

\* an idle worker takes an item no worker has taken
DeltaTake ==
  /\ calc.op = "fan_out"
  /\ \E w \in 1..calc.workers, x \in 0..(Len(calc.results) - 1) :
       /\ calc.running[w] = -1
       /\ calc.results[x + 1] = << >>
       /\ \A v \in 1..calc.workers : calc.running[v] # x
       /\ calc' = [calc EXCEPT !.running[w] = x]
  /\ UNCHANGED session

\* a worker finishes its item
DeltaFinish ==
  /\ calc.op = "fan_out"
  /\ \E w \in 1..calc.workers :
       /\ calc.running[w] # -1
       /\ DeltaStored(w, calc.running[w], delta_item(calc.src, calc.refplane, calc.running[w]))
  /\ UNCHANGED session

\* collect returns
DeltaJoin ==
  /\ calc.op = "fan_out"
  /\ \A x \in 1..Len(calc.results) : calc.results[x] # << >>
  /\ calc' = [calc EXCEPT !.op = "blit"]
  /\ UNCHANGED session

\* one pass of the blit_block loops
DeltaBlit ==
  /\ calc.op = "blit"
  /\ calc.k < Len(calc.results)
  /\ calc' = [calc EXCEPT
                !.refplane = blit_block(@, calc.results[calc.k + 1],
                                        (calc.k % calc.src.blocks_wide) * 16,
                                        (calc.k \div calc.src.blocks_wide) * 16),
                !.k = @ + 1]
  /\ UNCHANGED session

DeltaNext ==
  \/ DeltaTake
  \/ DeltaFinish
  \/ DeltaJoin
  \/ DeltaBlit

SpecDelta == DeltaInit /\ [][DeltaNext]_vars

(***************************************************************************)
(* Two decoders and one I-frame: each of two streams holds the packet of   *)
(* the same I-frame, after no packet or after the packet of another        *)
(* I-frame, of a P-frame or of a drop frame, and each has a decoder that   *)
(* reads it with advance_frame.  calc = [op, a, b], a and b being          *)
(* [prior, stream, dec, n, ret, before]: n the calls made, before the      *)
(* framebuffer as the last call found it.                                  *)
(***************************************************************************)
IntraPriors == {"none", "I", "P", "D"}

IntraFrames == {FrameBars, FrameRamp}

\* the encoder that has encoded FrameBars as the frame ahead of the I-frame
prior_encoder(prior) ==
  IF prior = "I"
  THEN encode_iframe(encoder_new(Width, Height, Framerate, Samplerate, Channels, MuxQuality),
                     FrameBars)
  ELSE IF prior = "P"
  THEN encode_pframe(encoder_new(Width, Height, Framerate, Samplerate, Channels, MuxQuality),
                     FrameBars)
  ELSE IF prior = "D"
  THEN encode_dropframe(encoder_new(Width, Height, Framerate, Samplerate, Channels, MuxQuality))
  ELSE encoder_new(Width, Height, Framerate, Samplerate, Channels, MuxQuality)

intra_stream(prior, frame) == encoder_write(encode_iframe(prior_encoder(prior), frame)).bytes

intra_side(prior, frame) ==
  [prior |-> prior, stream |-> intra_stream(prior, frame),
   dec |-> decoder_new(intra_stream(prior, frame)).dec, n |-> 0, ret |-> "none",
   before |-> << >>]

IntraInit ==
  /\ NoSession
  /\ \E pa \in IntraPriors, pb \in IntraPriors, frame \in IntraFrames :
       calc = [op |-> "intra", a |-> intra_side(pa, frame), b |-> intra_side(pb, frame)]

\* the decoder of a side has made one more call of advance_frame
intra_called(side, c, pos) ==
  [side EXCEPT !.dec = [c.self EXCEPT !.pos = pos], !.n = @ + 1, !.ret = c.ret,
               !.before = side.dec.framebuffer]

IntraAdvance ==
  /\ calc.op = "intra"
  /\ \E x \in {"a", "b"} :
       /\ calc[x].ret \in {"none", "true"}
       /\ \E c \in {advance_frame(calc[x].dec, calc[x].stream)} : \E pos \in c.ends :
            calc' = [calc EXCEPT ![x] = intra_called(calc[x], c, pos)]
  /\ UNCHANGED session

IntraNext == IntraAdvance

SpecIntra == IntraInit /\ [][IntraNext]_vars

(***************************************************************************)
(* The q-tables from Encoder::new to Decoder::new: an encoder of each      *)
(* quality writes its header, one entry of its two tables at a step, and a *)
(* decoder is opened on what write has written.                            *)
(***************************************************************************)
TableQualities == 0..10

\* the header up to the q-tables
header_prologue(self) ==
  PFV_MAGIC \o write_u32(PFV_VERSION) \o write_u16(self.width) \o write_u16(self.height)
  \o write_u16(self.framerate) \o write_u16(self.samplerate) \o write_u16(self.channels)
  \o write_u16(2)

\* entry k (from 0) of the tables in the order write takes them
table_entry(self, k) ==
  IF k < 64 THEN self.qtable_intra[k + 1] ELSE self.qtable_inter[k - 63]

TableInit ==
  /\ NoSession
  /\ calc \in {[op |-> "header",
                 self |-> encoder_new(Width, Height, Framerate, Samplerate, Channels, q),
                 bytes |-> header_prologue(encoder_new(Width, Height, Framerate, Samplerate,
                                                       Channels, q)),
                 k |-> 0] : q \in TableQualities}

TableEntry ==
  /\ calc.op = "header"
  /\ calc.k < 128
  /\ calc' = [calc EXCEPT !.bytes = @ \o write_qtable_entry(table_entry(calc.self, calc.k)),
                          !.k = @ + 1]
  /\ UNCHANGED session

\* the encoder holds no frame: write goes on to the EOF packet
TablesWritten ==
  /\ calc.op = "header"
  /\ calc.k = 128
  /\ calc' = [op |-> "written", self |-> calc.self, bytes |-> calc.bytes \o write_eof]
  /\ UNCHANGED session

TablesRead ==
  /\ calc.op = "written"
  /\ calc' = [op |-> "read", self |-> calc.self, bytes |-> calc.bytes,
              new |-> decoder_new(calc.bytes)]
  /\ UNCHANGED session

TableNext ==
  \/ TableEntry
  \/ TablesWritten
  \/ TablesRead

SpecTables == TableInit /\ [][TableNext]_vars

(***************************************************************************)
(* Residuals alone: calc_residuals over a block that holds every level     *)
(* against a block of one level, then apply_residuals of what it returned  *)
(* against the same block, with no transform in between.                   *)
(***************************************************************************)
ResidualLevels == 0..255

\* the block whose pixels are the 256 levels
plane_levels ==
  [width |-> MB_SIZE, height |-> MB_SIZE, pixels |-> Arr([i \in 1..256 |-> i - 1])]

ResidualInit ==
  /\ NoSession
  /\ calc \in {[op |-> "pixels", src |-> plane_levels,
                 prev |-> plane_fill(plane_new(MB_SIZE, MB_SIZE), r)] : r \in ResidualLevels}

CalcResiduals ==
  /\ calc.op = "pixels"
  /\ calc' = [op |-> "residuals", src |-> calc.src, prev |-> calc.prev,
              delta |-> calc_residuals(calc.src, calc.prev)]
  /\ UNCHANGED session

ApplyResiduals ==
  /\ calc.op = "residuals"
  /\ calc' = [op |-> "applied", src |-> calc.src, prev |-> calc.prev, delta |-> calc.delta,
              block |-> apply_residuals(calc.delta.pixels, calc.prev.pixels)]
  /\ UNCHANGED session

ResidualNext ==
  \/ CalcResiduals
  \/ ApplyResiduals

SpecResidual == ResidualInit /\ [][ResidualNext]_vars

(***************************************************************************)
(* The audio packet alone: write_audio_packet over the samples of every    *)
(* channel, then decode_audio over the bytes it wrote.  Each call runs as  *)
(* its loops run, one pass of the loop over the slices at a step, and no   *)
(* other step is enabled until the call has returned.                      *)
(***************************************************************************)
AudioWaves == {"silence", "triangle", "square", "saw"}

AudioLengths == {1, 19, 20, 21, 45}

\* one sample more than a frame of QOA_FRAME_LEN samples
LongLength == QOA_FRAME_LEN + 1

TrianglePeriod == << 300, 100, -100, -300, -100, 100 >>

\* sample i (from 0) of a wave, an i16
wave_sample(wave, i) ==
  IF wave = "triangle" THEN TrianglePeriod[(i % 6) + 1]
  ELSE IF wave = "square" THEN (IF (i \div 2) % 2 = 0 THEN 32767 ELSE -32768)
  ELSE IF wave = "saw" THEN ((i * 3000) % 65536) - 32768
  ELSE 0

\* the samples handed to write_audio_packet: channel c (from 1) starts 3 samples into
\* the wave for every channel before it
audio_of(channels, samples, wave) ==
  Arr([c \in 1..channels |->
        Arr([i \in 1..samples |-> wave_sample(wave, (i - 1) + (3 * (c - 1)))])])

\* the last input has channels of different lengths
AudioInputs ==
  { audio_of(channels, samples, wave) :
      channels \in 1..2, samples \in AudioLengths, wave \in AudioWaves }
  \cup { audio_of(1, LongLength, wave) : wave \in {"silence", "triangle"} }
  \cup { << audio_of(1, 20, "saw")[1], audio_of(1, 19, "saw")[1] >> }

\* write_audio_packet up to its loop over the frames
audio_begin(audio) ==
  IF ~audio_asserts(audio) THEN [op |-> "panic", audio |-> audio]
  ELSE [op |-> "encoding", audio |-> audio,
        lmses |-> Arr([c \in 1..Len(audio) |-> lms_init]), frames |-> << >>,
        sample_index |-> 0, open |-> FALSE, frame_len |-> 0, f |-> << >>, k |-> 0]

\* one pass of encode_audio_frame's loops, the assert! of the pass included
audio_slice(e, f) ==
  IF f.st # "ok" THEN [op |-> "panic", audio |-> e.audio]
  ELSE [e EXCEPT !.f = f, !.k = @ + 1]

\* decode_audio up to its loop over the frames
decode_begin(w) ==
  IF Len(w.packet.bytes) < 2
  THEN [op |-> "decoded", audio |-> w.audio, packet |-> w.packet,
        out |-> [st |-> "io", audio_buf |-> << >>], lmses |-> << >>]
  ELSE [op |-> "decoding", audio |-> w.audio, packet |-> w.packet,
        samples |-> read_u16(w.packet.bytes, 0).val,
        d |-> [st |-> "ok", pos |-> 2, read_samples |-> 0,
               audio_buf |-> vec_resize(<< >>, read_u16(w.packet.bytes, 0).val * Len(w.audio))],
        open |-> FALSE, f |-> << >>, slice_idx |-> 0, slice_count |-> 0, lmses |-> << >>]

\* decode_audio returns: Err(e) by a ? or Ok(()); lmses holds the LMS state each frame
\* was started with
decode_return(g, st) ==
  [op |-> "decoded", audio |-> g.audio, packet |-> g.packet,
   out |-> [st |-> st, audio_buf |-> g.d.audio_buf], lmses |-> g.lmses]

decode_frame(g, f) ==
  IF f.st # "ok" THEN decode_return(g, f.st)
  ELSE [g EXCEPT !.open = TRUE, !.f = f, !.slice_idx = 0,
                 !.slice_count = read_u16(g.packet.bytes, g.d.pos + 2).val,
                 !.lmses = Append(@, f.lmses)]

decode_slice(g, f) ==
  IF f.st # "ok" THEN decode_return(g, f.st)
  ELSE [g EXCEPT !.f = f, !.slice_idx = @ + 1]

decode_frame_end(g, d) ==
  IF d.st # "ok" THEN decode_return(g, d.st)
  ELSE [g EXCEPT !.d = d, !.open = FALSE]

AudioInit ==
  /\ NoSession
  /\ \E audio \in AudioInputs : calc = [op |-> "audio", audio |-> audio]

AudioBegin ==
  /\ calc.op = "audio"
  /\ calc' = audio_begin(calc.audio)
  /\ UNCHANGED session

\* while sample_index < samples: encode_audio_frame is entered
AudioFrame ==
  /\ calc.op = "encoding"
  /\ ~calc.open
  /\ calc.sample_index < Len(calc.audio[1])
  /\ calc' = [calc EXCEPT
                !.open = TRUE,
                !.frame_len = Clamp(QOA_FRAME_LEN, 0, Len(calc.audio[1]) - calc.sample_index),
                !.f = frame_open(calc.audio, calc.lmses),
                !.k = 0]
  /\ UNCHANGED session

AudioSlice ==
  /\ calc.op = "encoding"
  /\ calc.open
  /\ calc.k < frame_passes(calc.audio, calc.frame_len)
  /\ calc' = audio_slice(calc, frame_slot(calc.f, calc.audio, calc.sample_index,
                                          calc.frame_len, calc.k))
  /\ UNCHANGED session

\* encode_audio_frame returns; frames.push(frame); sample_index += QOA_FRAME_LEN
AudioFrameEnd ==
  /\ calc.op = "encoding"
  /\ calc.open
  /\ calc.k >= frame_passes(calc.audio, calc.frame_len)
  /\ calc' = [calc EXCEPT
                !.open = FALSE,
                !.frames = Append(@, encode_audio_frame_result(calc.frame_len, calc.lmses,
                                                               calc.f)),
                !.lmses = calc.f.lmses,
                !.sample_index = @ + QOA_FRAME_LEN]
  /\ UNCHANGED session

\* the loop over the frames has ended: the packet is written
AudioWritten ==
  /\ calc.op = "encoding"
  /\ ~calc.open
  /\ calc.sample_index >= Len(calc.audio[1])
  /\ calc' = [op |-> "written", audio |-> calc.audio,
              packet |-> audio_packet_bytes(Len(calc.audio[1]),
                                            [st |-> "ok", frames |-> calc.frames])]
  /\ UNCHANGED session

DecodeBegin ==
  /\ calc.op = "written"
  /\ calc' = decode_begin(calc)
  /\ UNCHANGED session

\* while read_samples < samples: read_audio_frame is entered
DecodeFrame ==
  /\ calc.op = "decoding"
  /\ ~calc.open
  /\ calc.d.read_samples < calc.samples
  /\ calc' = decode_frame(calc, read_frame_header(calc.packet.bytes, calc.d.pos,
                                                  Len(calc.audio)))
  /\ UNCHANGED session

DecodeSlice ==
  /\ calc.op = "decoding"
  /\ calc.open
  /\ calc.slice_idx < calc.slice_count
  /\ calc' = decode_slice(calc, frame_slice(calc.f, calc.packet.bytes, Len(calc.audio),
                                            calc.slice_idx))
  /\ UNCHANGED session

\* read_audio_frame returns and its samples are unzipped into the audio buffer
DecodeFrameEnd ==
  /\ calc.op = "decoding"
  /\ calc.open
  /\ calc.slice_idx >= calc.slice_count
  /\ calc' = decode_frame_end(calc, audio_unzip(calc.d, calc.f, calc.samples, Len(calc.audio)))
  /\ UNCHANGED session

DecodeDone ==
  /\ calc.op = "decoding"
  /\ ~calc.open
  /\ calc.d.read_samples >= calc.samples
  /\ calc' = decode_return(calc, "ok")
  /\ UNCHANGED session

AudioNext ==
  \/ AudioBegin
  \/ AudioFrame
  \/ AudioSlice
  \/ AudioFrameEnd
  \/ AudioWritten
  \/ DecodeBegin
  \/ DecodeFrame
  \/ DecodeSlice
  \/ DecodeFrameEnd
  \/ DecodeDone

SpecAudio == AudioInit /\ [][AudioNext]_vars

(***************************************************************************)
(* Properties.                                                             *)
(***************************************************************************)
\* the decoder is in its first pass over the stream and no call has failed
FirstPass == status = "open" /\ resets = 0

\* C1: while a Decoder makes its first pass over the stream Encoder::write produced,
\* after the k-th video packet (I, P or drop) its framebuffer equals, pixel for pixel,
\* the encoder's prev_frame as it stood after the k-th encode call.
C1_Lockstep == (FirstPass /\ nvid > 0) => dec.framebuffer = refs[nvid]

\* every reset so far was made at the end of the stream, and the decoder is there again
PassComplete == status = "open" /\ dec.eof /\ resets > 0 /\ Len(passes) = resets

\* C2: a pass from the start of the stream to its end, a reset, and a second pass to the
\* end hand on_video the same frames, with the same Y, U and V planes, in the same order.
C2_ResetIdempotent == PassComplete => vlog = passes[1]

\* the on_video callbacks of a call, and whether the call ended on a drop frame
video_count(c) == Cardinality({j \in 1..Len(c.events) : c.events[j].cb = "video"})

audio_count(c) == Cardinality({j \in 1..Len(c.events) : c.events[j].cb = "audio"})

ended_on_drop(c) ==
  /\ Len(c.packets) > 0
  /\ c.packets[Len(c.packets)].type = 1
  /\ c.packets[Len(c.packets)].len = 0

\* C3 as stated: a call of advance_frame that returns true has invoked on_video exactly
\* once, and a call that returns false has not invoked it.
C3_AsStated ==
  \A k \in 1..Len(last.calls) :
    /\ last.calls[k].ret = "true" => video_count(last.calls[k]) = 1
    /\ last.calls[k].ret = "false" => video_count(last.calls[k]) = 0

\* C3: a call of advance_frame that returns true has invoked on_video exactly once,
\* unless the video packet it read is a drop frame, and then it has not invoked it; a call
\* that returns false has not invoked it.
C3_OneFramePerCall ==
  \A k \in 1..Len(last.calls) :
    /\ (last.calls[k].ret = "true" /\ ~ended_on_drop(last.calls[k]))
         => video_count(last.calls[k]) = 1
    /\ (last.calls[k].ret = "true" /\ ended_on_drop(last.calls[k]))
         => video_count(last.calls[k]) = 0
    /\ last.calls[k].ret = "false" => video_count(last.calls[k]) = 0

\* one advance_delta has made a call that delivered a frame and a call that read a
\* drop frame
C3_Witness ==
  /\ last.op = "advance_delta"
  /\ \E i, j \in 1..Len(last.calls) :
       /\ last.calls[i].ret = "true" /\ video_count(last.calls[i]) = 1
       /\ last.calls[j].ret = "true" /\ ended_on_drop(last.calls[j])

\* the decoder as the k-th call of the last operation found it
call_before(k) == IF k = 1 THEN last.before ELSE last.calls[k - 1].self

\* C4: a call of advance_frame that reads a type-1 packet of length 0 leaves the
\* framebuffer and retframe as they were and does not invoke on_video; and
\* encode_dropframe leaves prev_frame as it was.
C4_DropFrame ==
  /\ \A k \in 1..Len(last.calls) :
       ended_on_drop(last.calls[k]) =>
         /\ last.calls[k].self.framebuffer = call_before(k).framebuffer
         /\ last.calls[k].self.retframe = call_before(k).retframe
         /\ video_count(last.calls[k]) = 0
  /\ \A k \in 1..Len(enc.frames) :
       enc.frames[k].kind = "D" =>
         refs[k] = IF k = 1 THEN frame_new_padded(enc.width, enc.height) ELSE refs[k - 1]

\* a drop frame has been read by a decoder that holds a decoded frame, written by an
\* encoder whose prev_frame held one
C4_Witness ==
  /\ status = "open"
  /\ Len(last.calls) = 1
  /\ ended_on_drop(last.calls[1])
  /\ last.before.framebuffer # frame_new_padded(enc.width, enc.height)
  /\ \E k \in 2..Len(enc.frames) :
       enc.frames[k].kind = "D" /\ refs[k] # frame_new_padded(enc.width, enc.height)

\* C5: a call of advance_frame that reads a type-0 packet sets the EOF flag and returns
\* false; a call made with the flag set returns false, reads nothing and invokes no
\* callback; only the reading of a type-0 packet sets the flag and only reset clears it.
C5_StickyEof ==
  /\ \A k \in 1..Len(last.calls) :
       /\ call_before(k).eof =>
            /\ last.calls[k].ret = "false"
            /\ last.calls[k].reads = 0
            /\ last.calls[k].events = << >>
            /\ last.calls[k].self.eof
       /\ (Len(last.calls[k].packets) > 0
           /\ last.calls[k].packets[Len(last.calls[k].packets)].type = 0
           /\ last.calls[k].packets[Len(last.calls[k].packets)].len >= 0) =>
            /\ last.calls[k].ret = "false"
            /\ last.calls[k].self.eof
       /\ (~call_before(k).eof /\ last.calls[k].self.eof) =>
            /\ Len(last.calls[k].packets) > 0
            /\ last.calls[k].packets[Len(last.calls[k].packets)].type = 0
  /\ (last.op # "none" /\ ~last.before.eof /\ dec.eof) =>
       (Len(last.calls) > 0 /\ last.calls[Len(last.calls)].self.eof)
  /\ (last.op # "none" /\ last.before.eof /\ ~dec.eof) => last.op = "reset"

\* advance_frame has been called with the flag set, after a reset had cleared it and
\* a second pass had set it again
C5_Witness ==
  /\ status = "open"
  /\ resets > 0
  /\ last.op = "advance_frame"
  /\ last.before.eof
  /\ last.ret = "false"

\* C8: advance_delta(dt) adds dt to the accumulator and calls advance_frame while a
\* whole frame period (two half periods) is held, taking one period off after each call
\* that returns true; it returns false as soon as a call returns false; and when it
\* returns true it has made one call per whole period held and the accumulator is less
\* than one period.
C8_Pacing ==
  last.op = "advance_delta" =>
    /\ \A k \in 1..Len(last.calls) :
         /\ last.calls[k].self.delta_accum
              = (last.before.delta_accum + last.arg) - (2 * (k - 1))
         /\ last.calls[k].self.delta_accum >= 2
         /\ k < Len(last.calls) => last.calls[k].ret = "true"
    /\ dec.delta_accum
         = (last.before.delta_accum + last.arg)
           - (2 * Cardinality({k \in 1..Len(last.calls) : last.calls[k].ret = "true"}))
    /\ last.ret = "false" <=>
         (Len(last.calls) > 0 /\ last.calls[Len(last.calls)].ret = "false")
    /\ last.ret = "true" =>
         /\ dec.delta_accum < 2
         /\ Len(last.calls) = (last.before.delta_accum + last.arg) \div 2

\* an advance_delta of two periods that found half a period in the accumulator has made
\* two calls, returned true and left half a period
C8_Witness ==
  /\ last.op = "advance_delta"
  /\ last.before.delta_accum = 1
  /\ last.arg = 4
  /\ Len(last.calls) = 2
  /\ last.ret = "true"
  /\ dec.delta_accum = 1

\* the callbacks of the calls of an operation, as the application sees them
callbacks_seen(l) ==
  [j \in 1..Len(calls_events(l.calls, 1)) |->
     [cb |-> calls_events(l.calls, 1)[j].cb, data |-> calls_events(l.calls, 1)[j].data]]

\* C6: a packet whose type is none of 0, 1, 2, 3 is skipped by its declared length: the
\* decoder of a stream with such packets inserted makes the same callbacks with the same
\* data and returns the same values, call by call, as the decoder of the stream without
C6_UnknownSkipped ==
  status = "open" =>
    /\ last.op = shadow.last.op
    /\ last.ret = shadow.last.ret
    /\ callbacks_seen(last) = callbacks_seen(shadow.last)

\* a call has skipped an inserted packet whose payload reads as an EOF packet, and has
\* gone on to deliver a frame
C6_Witness ==
  /\ status = "open"
  /\ stream # shadow.stream
  /\ last.op = "advance_frame"
  /\ last.ret = "true"
  /\ video_count(last.calls[1]) = 1
  /\ \E j \in 1..Len(last.calls[1].packets) :
       /\ last.calls[1].packets[j].type \in UnknownTypes
       /\ last.calls[1].packets[j].len = 5

\* the callbacks the packets a call has read ask for, and the callbacks it made
asks_callback(packet) == packet.type \in {2, 3} \/ (packet.type = 1 /\ packet.len > 0)

callbacks_due(packets) ==
  [j \in 1..Len(SelectSeq(packets, asks_callback)) |->
     [cb |-> IF SelectSeq(packets, asks_callback)[j].type = 3 THEN "audio" ELSE "video",
      off |-> SelectSeq(packets, asks_callback)[j].off]]

callbacks_made(events) ==
  [j \in 1..Len(events) |-> [cb |-> events[j].cb, off |-> events[j].off]]

\* C7: a call of advance_frame that returns reads on from where the decoder stood, one
\* packet after the other; it makes one on_audio callback for every audio packet and one
\* on_video callback for every I/P packet with a payload, in the order of the packets;
\* and it returns on a video or EOF packet only, never on an audio packet
C7_StreamOrder ==
  (status = "open" /\ last.op = "advance_frame" /\ ~last.before.eof) =>
    /\ last.ret \in {"true", "false"}
    /\ Len(last.calls[1].packets) > 0
    /\ last.calls[1].packets[1].off = last.before.pos
    /\ \A j \in 1..(Len(last.calls[1].packets) - 1) :
         /\ last.calls[1].packets[j].type \notin {0, 1, 2}
         /\ last.calls[1].packets[j + 1].off
              = (last.calls[1].packets[j].off + 5) + last.calls[1].packets[j].len
    /\ last.calls[1].packets[Len(last.calls[1].packets)].type \in {0, 1, 2}
    /\ dec.pos = (last.calls[1].packets[Len(last.calls[1].packets)].off + 5)
                   + last.calls[1].packets[Len(last.calls[1].packets)].len
    /\ callbacks_made(last.calls[1].events) = callbacks_due(last.calls[1].packets)

\* a call has handed two decoded samples to on_audio and then a frame to on_video
C7_Witness ==
  /\ status = "open"
  /\ last.op = "advance_frame"
  /\ Len(last.calls[1].events) = 2
  /\ last.calls[1].events[1].cb = "audio"
  /\ last.calls[1].events[1].data = << 113, 23 >>
  /\ last.calls[1].events[2].cb = "video"
  /\ last.ret = "true"

\* the header of the stream a Decoder was opened on
has_magic(bytes) == Len(bytes) >= 8 /\ SubSeq(bytes, 1, 8) = PFV_MAGIC

has_version(bytes) == Len(bytes) >= 12 /\ read_u32_value(bytes, 8) = PFV_VERSION

header_complete(bytes) == Len(bytes) >= 24 /\ Len(bytes) >= header_len(bytes)

\* C9: Decoder::new on a stream whose first 8 bytes are not the magic fails with
\* FormatError, whatever the version field holds; with the magic and another version
\* than PFV_VERSION it fails with VersionError; on a stream that ends before its header
\* is complete, the fields read before the end being right, it fails with IOError; and a
\* failed Decoder::new returns no Decoder
C9_HeaderValidation ==
  status # "written" =>
    /\ (Len(stream) >= 8 /\ ~has_magic(stream)) => status = "FormatError"
    /\ (has_magic(stream) /\ Len(stream) >= 12 /\ ~has_version(stream))
         => status = "VersionError"
    /\ ( \/ Len(stream) < 8
         \/ has_magic(stream) /\ Len(stream) < 12
         \/ has_magic(stream) /\ has_version(stream) /\ ~header_complete(stream) )
         => status = "IOError"
    /\ status \in {"FormatError", "VersionError", "IOError"} => dec = NO_DECODER

\* Decoder::new has failed on a stream with neither the magic nor the version
C9_Witness ==
  /\ status = "FormatError"
  /\ Len(stream) >= 12
  /\ ~has_magic(stream)
  /\ ~has_version(stream)
  /\ dec = NO_DECODER

\* C10: advance_frame on a stream with a cut or malformed I-frame or P-frame payload
\* returns to its caller, with an error or a value, and does not abort
C10_ErrorsSurface == status \notin {"panic", "hang"}

\* what has been written and read has come back as it was
ReadIsWritten ==
  calc.op = "read" => (calc.out.st = "ok" /\ calc.out.coefficients = calc.data)

\* C11: a sequence of i16 coefficients that is run-length encoded, written symbol by
\* symbol with the codes of its tree and read by the decoder's loop comes back as it was:
\* no step of the way stops the program, and the loop ends with the sequence
C11_EntropyRoundTrip == calc.op # "panic" /\ ReadIsWritten

\* C12: every symbol rle_encode emits has num_zeroes in 0..15 and coeff_size in 0..15
C12_SymbolRanges ==
  calc.op = "rle_encode" =>
    \A i \in 1..Len(calc.sequence) :
      /\ calc.sequence[i].num_zeroes \in 0..15
      /\ calc.sequence[i].coeff_size \in 0..15

\* C13: every num_zeroes and coeff_size of an RLE sequence has a code of one bit or more
\* in the tree rle_create_huffman makes from the sequence
C13_CodeLengths ==
  calc.op = "rle_create_huffman" =>
    /\ codes_asserted(calc.tree, calc.sequence)
    /\ \A k \in 1..16 : calc.tree.table[k] > 0 => calc.tree.codes[k].len >= 1

\* the codes of two symbols: a is a prefix of b, bits taken in the order they are written
is_prefix(a, b) == a.len <= b.len /\ b.val % (2 ^ a.len) = a.val

\* C14: in the tree from_table makes of a table, the code of a symbol with a frequency is
\* no prefix of the code of another symbol with a frequency
C14_PrefixFree ==
  calc.op = "from_table" =>
    \A a, b \in 1..16 :
      (a # b /\ calc.table[a] > 0 /\ calc.table[b] > 0)
        => ~is_prefix(calc.tree.codes[a], calc.tree.codes[b])

\* a tree of 10 symbols or more has been made that has a code of more than 8 bits and a
\* code of one bit
C14_Witness ==
  /\ calc.op = "from_table"
  /\ Cardinality({k \in 1..16 : calc.table[k] > 0}) >= 10
  /\ \E a, b \in 1..16 : calc.tree.codes[a].len > 8 /\ calc.tree.codes[b].len = 1

\* C15: read at the first bit of the code of a symbol with a frequency returns the symbol
\* and leaves the reader behind the last bit of the code, for codes of up to 8 bits, for
\* longer codes, and with fewer than 8 bits left in the stream behind the code
C15_ReadRoundTrip ==
  calc.op = "read" =>
    /\ calc.out.st = "ok"
    /\ calc.out.val = calc.symbol
    /\ calc.out.pos = calc.pos + get_code(calc.tree, calc.symbol).len

\* a code of more than 8 bits that does not start on a byte has been read with fewer
\* than 8 bits behind it
C15_Witness ==
  /\ calc.op = "read"
  /\ get_code(calc.tree, calc.symbol).len > 8
  /\ calc.pos % 8 # 0
  /\ calc.left < 8
  /\ calc.out.val = calc.symbol

\* a table with two symbols or more gives every one of them a code of one bit or more
TwoSymbolsHaveCodes ==
  (calc.op = "from_table" /\ Cardinality({k \in 1..16 : calc.table[k] > 0}) >= 2) =>
    \A k \in 1..16 : calc.table[k] > 0 => calc.tree.codes[k].len >= 1

\* the P-frame was made of a frame whose padded planes are the encoder's reference
same_as_reference ==
  /\ calc.op \in {"encode_pframe", "decode_pframe"}
  /\ padded_frame(calc.frame).plane_y = calc.reference.plane_y
  /\ padded_frame(calc.frame).plane_u = calc.reference.plane_u
  /\ padded_frame(calc.frame).plane_v = calc.reference.plane_v

\* decoding the packet of such a frame leaves the framebuffer equal to the reference
ZeroMotionDecodes ==
  (calc.op = "decode_pframe" /\ same_as_reference) =>
    (calc.out.st = "ok" /\ calc.out.framebuffer = calc.reference)

\* C16: the P-packet of a frame whose padded planes are identical to the encoder's
\* reference frame has has_mv = false and has_coeff = false in every block header, and
\* decoding it leaves the reconstruction frame exactly equal to the reference.
C16_ZeroMotion ==
  (calc.op = "decode_pframe" /\ same_as_reference) =>
    /\ calc.headers.st = "ok"
    /\ \A b \in 1..Len(calc.headers.headers) :
         /\ calc.headers.headers[b].mvec_x = 0
         /\ calc.headers.headers[b].mvec_y = 0
         /\ ~calc.headers.headers[b].has_coeff
    /\ calc.out.st = "ok"
    /\ calc.out.framebuffer = calc.reference

\* the planes of the P-frame just encoded, each with the reference plane it was
\* searched in
motion_planes ==
  << << calc.enc.frames[Len(calc.enc.frames)].f.y, calc.reference.plane_y >>,
     << calc.enc.frames[Len(calc.enc.frames)].f.u, calc.reference.plane_u >>,
     << calc.enc.frames[Len(calc.enc.frames)].f.v, calc.reference.plane_v >> >>

\* block b (from 1) of an encoded plane has a vector within -16..16 that addresses a
\* 16 x 16 block inside refplane
vector_safe(plane, refplane, b) ==
  /\ plane.blocks[b].motion_x \in -16..16
  /\ plane.blocks[b].motion_y \in -16..16
  /\ (((b - 1) % plane.blocks_wide) * 16) + plane.blocks[b].motion_x \in 0..(refplane.width - 16)
  /\ (((b - 1) \div plane.blocks_wide) * 16) + plane.blocks[b].motion_y
       \in 0..(refplane.height - 16)

\* C17: every motion vector encode_block_delta produces satisfies -16 <= mx, my <= 16
\* and addresses a 16 x 16 block inside the reference plane, so the range assertions of
\* the decoder do not fail on the packet the encoder writes.
C17_VectorSafety ==
  /\ calc.op \in {"encode_pframe", "decode_pframe"} =>
       \A p \in 1..3 : \A b \in 1..Len(motion_planes[p][1].blocks) :
         vector_safe(motion_planes[p][1], motion_planes[p][2], b)
  /\ calc.op = "decode_pframe" => (calc.headers.st = "ok" /\ calc.out.st = "ok")

\* a packet has been decoded in which a block has a vector to the right or down and
\* residual coefficients
C17_Witness ==
  /\ calc.op = "decode_pframe"
  /\ calc.out.st = "ok"
  /\ \E b \in 1..Len(calc.headers.headers) :
       /\ calc.headers.headers[b].mvec_x + calc.headers.headers[b].mvec_y \in 1..15
       /\ calc.headers.headers[b].has_coeff

\* coefficient v with the truncation of the quantizer d (in quarters): the whole part
\* of v divided by d, toward zero, and multiplied by d again
truncated(v, d) == (Shl(TruncDiv(Shr(v, FP_BITS) * QUARTER, d), FP_BITS) * d) \div QUARTER

\* a zero block round-trips to zero
ZeroRoundTrip ==
  (calc.op = "decode" /\ calc.m = MatrixFull(0, 0)) => calc.out = MatrixFull(0, 0)

\* with a table whose entries are all the same the round trip is the truncation
FlatTableRoundTrip ==
  (calc.op = "decode" /\ \A k \in 1..64 : calc.q_table[k] = calc.q_table[1]) =>
    \A n \in 1..64 : calc.out[n] = truncated(calc.m[n], calc.q_table[n])

\* C18: for every quant table Q and every row-order index n, decode multiplies
\* coefficient n by the table entry encode divided it by, so decode(encode(m, Q), Q)
\* differs from m at position n only by the truncation of that position's quantizer;
\* a zero block round-trips to zero.
C18_QuantInverse ==
  calc.op = "decode" =>
    /\ \A n \in 1..64 :
         \E k \in 1..64 : calc.out[n] = truncated(calc.m[n], calc.q_table[k])
    /\ calc.m = MatrixFull(0, 0) => calc.out = MatrixFull(0, 0)

\* the zero vector comes back as the zero vector
ZeroVectorRoundTrip ==
  (calc.op = "inverse" /\ calc.x = VecFlat(0)) => calc.samples = VecFlat(0)

\* C19: for any 8-vector x of pixel-range integers carried with 8 fractional bits,
\* fast_dct8_inverse_transform(fast_dct8_transform(x)), shifted back to integers,
\* equals x within +/-1 per element.
C19_DctRoundTrip ==
  calc.op = "inverse" => \A i \in 1..8 : Abs(calc.samples[i] - calc.x[i]) <= 1

\* the result of the macroblock x (from 0) of a job, in raster order
raster_result(job, x) ==
  IF job.kind = "encode_plane"
  THEN encode_block(get_slice(job.img_copy, (x % job.blocks_wide) * 16,
                              (x \div job.blocks_wide) * 16, 16, 16), ParTable)
  ELSE decode_block(job.src.blocks[x + 1], ParTable)

\* the outcome of the function when it iterates serially
serial_outcome(job) ==
  IF job.kind = "encode_plane" THEN encode_plane(job.plane, ParTable, 0)
  ELSE decode_plane_into(job.src, ParTable, job.target)

\* C20: whatever the number of workers and the order in which they finish, the i-th
\* result of the fan-out of a plane encode or decode is the result of the i-th
\* macroblock in raster order, on decode it is written to the output plane at pixel
\* ((i mod blocks_wide) * 16, (i div blocks_wide) * 16), and the outcome equals that
\* of serial iteration.
C20_OrderPreserved ==
  /\ calc.op \in {"fan_out", "collected"} =>
       \A x \in 0..(Len(calc.results) - 1) :
         calc.results[x + 1] # << >> => calc.results[x + 1] = raster_result(calc.job, x)
  /\ calc.op = "collected" =>
       /\ calc.out = serial_outcome(calc.job)
       /\ calc.job.kind = "decode_plane_into" =>
            \A x \in 0..(Len(calc.results) - 1) :
              get_block(calc.out, (x % calc.job.blocks_wide) * 16,
                        (x \div calc.job.blocks_wide) * 16)
                = raster_result(calc.job, x)

\* a plane of two rows of two macroblocks has been decoded by two workers that
\* finished the last macroblock first and the first one last
C20_Witness ==
  /\ calc.op = "collected"
  /\ calc.job.kind = "decode_plane_into"
  /\ calc.workers = 2
  /\ calc.job.blocks_wide = 2 /\ calc.job.blocks_high = 2
  /\ calc.order[1] = 3 /\ calc.order[4] = 0
  /\ calc.results[2] # calc.results[3]


\* the reconstructed values of the candidates the encoder kept for channel c (from 1),
\* frame after frame
RECURSIVE kept_reconstruction(_, _, _)
kept_reconstruction(frames, c, k) ==
  IF k > Len(frames) THEN << >>
  ELSE frames[k].recon[c] \o kept_reconstruction(frames, c, k + 1)

\* channel c of an interleaved buffer
channel_of(buf, channels, c) ==
  Arr([i \in 1..(Len(buf) \div channels) |-> buf[((i - 1) * channels) + c]])

\* the steps of the two calls come to what the calls return, for packets of one pass
StepsAreTheCalls ==
  /\ (calc.op = "written" /\ Len(calc.audio[1]) <= QOA_SLICE_LEN /\ Len(calc.audio) = 1)
       => calc.packet = write_audio_packet(calc.audio)
  /\ (calc.op = "decoded" /\ Len(calc.audio[1]) <= QOA_SLICE_LEN /\ Len(calc.audio) = 1)
       => /\ calc.out.st
              = decode_audio([channels |-> 1, audio_buf |-> << >>], calc.packet.bytes).st
          /\ calc.out.audio_buf
              = decode_audio([channels |-> 1, audio_buf |-> << >>], calc.packet.bytes).audio_buf

\* a packet of one frame decodes to the reconstruction of the candidates the encoder kept
SingleFrameDecodes ==
  (calc.op = "decoded" /\ Len(calc.packet.frames) = 1)
    => /\ calc.out.st = "ok"
       /\ \A c \in 1..Len(calc.audio) :
            channel_of(calc.out.audio_buf, Len(calc.audio), c)
              = kept_reconstruction(calc.packet.frames, c, 1)
       /\ calc.lmses[1] = calc.packet.frames[1].lmses

\* C21: for every audio packet write_audio_packet wrote, decode_audio yields for each
\* channel the reconstructed values of the slice candidates the encoder kept, and the
\* LMS state the decoder starts each frame with is the encoder's LMS state at that point.
C21_AudioRoundTrip ==
  calc.op = "decoded"
    => /\ calc.out.st = "ok"
       /\ \A c \in 1..Len(calc.audio) :
            channel_of(calc.out.audio_buf, Len(calc.audio), c)
              = kept_reconstruction(calc.packet.frames, c, 1)
       /\ \A k \in 1..Len(calc.packet.frames) : calc.lmses[k] = calc.packet.frames[k].lmses

\* the candidates of the pass that made calc.f.pick, each run over the whole slice: with
\* best_err at i64::MAX no candidate breaks
full_candidates ==
  [s \in 0..15 |->
     slice_candidate(calc.audio[calc.f.pick.channel + 1],
                     calc.f.pick.start + calc.sample_index, calc.f.pick.slice_len,
                     calc.f.pick.lms, s, I64_MAX)]

\* the candidate of scale factor s as the search ran it once its best was found
ran_after_best(s) ==
  slice_candidate(calc.audio[calc.f.pick.channel + 1],
                  calc.f.pick.start + calc.sample_index, calc.f.pick.slice_len,
                  calc.f.pick.lms, s, calc.f.pick.best.err)

slice_picked == calc.op = "encoding" /\ calc.open /\ calc.k > 0

\* C25: for every slice the scale factor, quantized values and LMS state that
\* encode_audio_frame retains are those of the lowest scale factor whose squared error
\* over the whole slice is minimal among the 16 candidates, the retained slice holds
\* slice_len values, and assert!(best_err < i64::MAX) never fails.
C25_SearchOptimal ==
  /\ slice_picked
       => /\ \A t \in 0..15 : ~wide_less(full_candidates[t].err, calc.f.pick.best.err)
          /\ \A t \in 0..15 :
               t < calc.f.pick.best.scalefactor
                 => wide_less(calc.f.pick.best.err, full_candidates[t].err)
          /\ calc.f.pick.best.err = full_candidates[calc.f.pick.best.scalefactor].err
          /\ calc.f.pick.best.slice = full_candidates[calc.f.pick.best.scalefactor].slice
          /\ calc.f.pick.best.lms = full_candidates[calc.f.pick.best.scalefactor].lms
          /\ calc.f.lmses[calc.f.pick.channel + 1] = calc.f.pick.best.lms
          /\ Len(calc.f.pick.best.slice) = calc.f.pick.slice_len
  /\ calc.op = "panic" => ~audio_asserts(calc.audio)

\* a slice whose best scale factor is not the first and after which a candidate broke
C25_Witness ==
  /\ slice_picked
  /\ calc.f.pick.best.scalefactor > 0
  /\ calc.f.pick.slice_len > 1
  /\ \E t \in 0..15 : t > calc.f.pick.best.scalefactor /\ ran_after_best(t).broke

\* a slice on which two candidates have the lowest error
C25_TieWitness ==
  /\ slice_picked
  /\ \E t \in 0..15 :
       /\ t > calc.f.pick.best.scalefactor
       /\ full_candidates[t].err = calc.f.pick.best.err

\* the samples of channel ch among the interleaved runs append_audio was handed, a run at
\* a time: sample k of a run's channel ch is the run's element (k - 1) * channels + ch
RECURSIVE appended_channel(_, _, _, _)
appended_channel(chunks, channels, ch, k) ==
  IF k > Len(chunks) THEN << >>
  ELSE Arr([j \in 1..(Len(chunks[k]) \div channels) |-> chunks[k][((j - 1) * channels) + ch]])
       \o appended_channel(chunks, channels, ch, k + 1)

\* the samples of channel ch in the audio packets write wrote, in the order of the packets
RECURSIVE written_channel(_, _, _)
written_channel(packets, ch, k) ==
  IF k > Len(packets) THEN << >> ELSE packets[k][ch] \o written_channel(packets, ch, k + 1)

\* C28: Encoder::write drains no more samples than are pending and so does not abort, every
\* audio packet holds fewer than 65536 samples a channel, and the samples append_audio was
\* handed are, channel by channel and in order, the samples of the audio packets written
\* before the EOF packet.
C28_AudioConservation ==
  calc.op = "wrote" =>
    /\ calc.st = "ok"
    /\ \A k \in 1..Len(calc.packets) : \A ch \in 1..enc.channels :
         Len(calc.packets[k][ch]) < 65536
    /\ \A ch \in 1..enc.channels :
         written_channel(calc.packets, ch, 1)
           = appended_channel(calc.chunks, enc.channels, ch, 1)

\* what write does keep to: it writes a sample once at most, and in order
WrittenIsPrefix ==
  (calc.op = "wrote" /\ calc.st = "ok") =>
    \A ch \in 1..enc.channels :
      /\ Len(written_channel(calc.packets, ch, 1))
           <= Len(appended_channel(calc.chunks, enc.channels, ch, 1))
      /\ written_channel(calc.packets, ch, 1)
           = SubSeq(appended_channel(calc.chunks, enc.channels, ch, 1), 1,
                    Len(written_channel(calc.packets, ch, 1)))
      /\ written_channel(calc.packets, ch, 1) \o enc.audio_buf[ch]
           = appended_channel(calc.chunks, enc.channels, ch, 1)

\* the video packets of a stream, and the kind of frame each is the packet of
video_kind(packet) ==
  IF packet.type = 2 THEN "P" ELSE IF packet.len = 0 THEN "D" ELSE "I"

is_video(packet) == packet.type \in {1, 2}

packet_order ==
  /\ calc.op = "wrote" =>
       /\ calc.st = "ok"
       /\ SubSeq(stream, 1, Len(write_header(enc))) = write_header(enc)
       /\ Len(SelectSeq(stream_packets(stream), is_video)) = Len(enc.frames)
       /\ \A k \in 1..Len(enc.frames) :
            video_kind(SelectSeq(stream_packets(stream), is_video)[k]) = enc.frames[k].kind
       /\ Len(stream_packets(stream)) > 0
       /\ stream_packets(stream)[Len(stream_packets(stream))].type = 0
       /\ stream_packets(stream)[Len(stream_packets(stream))].len = 0
       /\ stream_packets(stream)[Len(stream_packets(stream))].off + 5 = Len(stream)
  /\ (calc.op = "wrote" /\ last.op = "advance_frame") =>
       /\ last.ret \in {"true", "false"}
       /\ last.ret = "true" => (nvid <= Len(enc.frames) /\ ~last.before.eof)
       /\ last.ret = "false" => nvid = Len(enc.frames)

\* C22: Encoder::write emits the header, one video packet for every encode call in the
\* order of the calls (type 1, type 2, type 1 of length 0) and one EOF packet, the last
\* packet of the stream; a decoder of the stream sees advance_frame return true once for
\* each of the encoded frames and false from then on.
C22_PacketOrder == packet_order

\* an encoder without channels keeps to the order
NoChannelsPacketOrder == enc.channels = 0 => packet_order

\* an encoder without channels has written two frames and its decoder has read them and
\* the EOF packet
NoChannelsRead ==
  /\ calc.op = "wrote"
  /\ enc.channels = 0
  /\ Len(enc.frames) = 2
  /\ last.op = "advance_frame"
  /\ last.ret = "false"

\* write has returned Ok having written an audio packet
AudioPacketWritten == calc.op = "wrote" /\ calc.st = "ok" /\ Len(calc.packets) > 0

\* the steps of the header are write
HeaderIsWrite == calc.op = "written" => calc.bytes = encoder_write(calc.self).bytes

tables_read ==
  /\ calc.new.st = "ok"
  /\ Len(calc.new.dec.qtables) = 2
  /\ calc.new.dec.qtables[1] = calc.self.qtable_intra
  /\ calc.new.dec.qtables[2] = calc.self.qtable_inter

\* C23: for every quality from 0 to 10 the entries of the two q-tables that Decoder::new
\* reads from the header Encoder::write wrote are the entries max(1, base * quality * 0.25)
\* the encoder holds and quantizes with, and each of them is at least 1.
C23_TableFidelity ==
  calc.op = "read" =>
    /\ tables_read
    /\ \A t \in 1..2 : \A i \in 1..64 : calc.new.dec.qtables[t][i] >= QUARTER

\* what holds at every quality: the entries read are the whole part of the encoder's,
\* and at least 1
EntriesTruncated ==
  calc.op = "read" =>
    /\ calc.new.st = "ok"
    /\ \A k \in 0..127 :
         /\ calc.new.dec.qtables[(k \div 64) + 1][(k % 64) + 1]
              = (table_entry(calc.self, k) \div QUARTER) * QUARTER
         /\ calc.new.dec.qtables[(k \div 64) + 1][(k % 64) + 1] >= QUARTER
         /\ table_entry(calc.self, k) >= QUARTER

\* at the qualities that scale by a whole number the tables read are the encoder's
WholeScalesFaithful ==
  (calc.op = "read" /\ calc.self.px_err \in {px_err_of(0), px_err_of(4), px_err_of(8)})
    => tables_read

\* C26: for every source pixel s and reference pixel r from 0 to 255, apply_residuals of
\* what calc_residuals made of s and r, against r, is within 1 of s; and the residual byte
\* calc_residuals stores is (s - r) / 2 + 128 as it is, which lies in 0..255.
C26_ResidualWithinOne ==
  /\ calc.op \in {"residuals", "applied"} =>
       \A i \in 1..256 :
         /\ calc.delta.pixels[i]
              = TruncDiv(calc.src.pixels[i] - calc.prev.pixels[i], 2) + 128
         /\ calc.delta.pixels[i] \in 0..255
  /\ calc.op = "applied" =>
       \A i \in 1..256 : Abs(calc.block[i] - calc.src.pixels[i]) <= 1

\* the source level 0 against the reference level 255: the residual is 1 and the pixel
\* comes back as 1
C26_Witness ==
  /\ calc.op = "applied"
  /\ calc.src.pixels[1] = 0
  /\ calc.prev.pixels[1] = 255
  /\ calc.delta.pixels[1] = 1
  /\ calc.block[1] = 1

\* refplane with the first k results blitted into it
RECURSIVE blitted(_, _, _, _)
blitted(refplane, results, blocks_wide, k) ==
  IF k = 0 THEN refplane
  ELSE blit_block(blitted(refplane, results, blocks_wide, k - 1), results[k],
                  ((k - 1) % blocks_wide) * 16, ((k - 1) \div blocks_wide) * 16)

\* C24: while the blocks of a P-frame plane are decoded, in whatever order the workers
\* take and finish them, the reference plane is as it was before the frame; every block is
\* decoded from the reference as it was before the frame; the reference is written, a
\* block at a time, only once every block's result is there; and the plane that results
\* is that of decoding the blocks one after the other.
C24_ReferenceReadOnly ==
  /\ calc.op = "fan_out" => (calc.refplane = calc.before /\ calc.k = 0)
  /\ calc.op \in {"fan_out", "blit"} =>
       \A x \in 0..(Len(calc.results) - 1) :
         calc.results[x + 1] # << >>
           => calc.results[x + 1] = delta_item(calc.src, calc.before, x)
  /\ calc.op = "blit" =>
       /\ \A x \in 1..Len(calc.results) : calc.results[x] # << >>
       /\ calc.refplane = blitted(calc.before, calc.results, calc.src.blocks_wide, calc.k)
  /\ (calc.op = "blit" /\ calc.k = Len(calc.results)) =>
       calc.refplane = decode_plane_delta_into(calc.src, calc.before, ParTable)

\* two workers have decoded two blocks that each take the other's place in the
\* reference, the second block first, and both have been blitted
C24_Witness ==
  /\ calc.op = "blit"
  /\ calc.k = 2
  /\ calc.workers = 2
  /\ calc.order = << 1, 0 >>
  /\ calc.src.blocks[1].motion_x = 16
  /\ calc.src.blocks[2].motion_x = -16
  /\ calc.src.blocks[1].subblocks # << >>
  /\ calc.refplane # calc.before
  /\ get_block(calc.refplane, 0, 0) # get_block(calc.before, 16, 0)

\* the decoder of a side has read the I-frame packet the two streams share
intra_read(side) == side.n >= (IF side.prior = "none" THEN 1 ELSE 2)

\* C27: once two decoders have read the packet of the same I-frame, each after whatever
\* packet its stream held before, their framebuffers are equal and the frames they
\* deliver are equal: what the packet leaves depends on the packet and the q-tables of
\* the header alone.
C27_IntraSelfContained ==
  (calc.op = "intra" /\ intra_read(calc.a) /\ intra_read(calc.b)) =>
    /\ calc.a.ret \in {"true", "false"}
    /\ calc.b.ret \in {"true", "false"}
    /\ calc.a.dec.framebuffer = calc.b.dec.framebuffer
    /\ calc.a.dec.retframe = calc.b.dec.retframe

\* a decoder whose framebuffer held an I-frame and one whose framebuffer held a P-frame
\* have both just read the shared packet, which changed both framebuffers
C27_Witness ==
  /\ calc.op = "intra"
  /\ calc.a.prior = "I" /\ calc.a.n = 2
  /\ calc.b.prior = "P" /\ calc.b.n = 2
  /\ calc.a.before # calc.b.before
  /\ calc.a.dec.framebuffer # calc.a.before
  /\ calc.b.dec.framebuffer # calc.b.before
  /\ calc.a.dec.framebuffer = calc.b.dec.framebuffer

\* C29: whatever the payload of an I-frame or P-frame packet, the coefficient loop of
\* decode_iframe and decode_pframe ends, each of its iterations moving the output index
\* or the bit position forward, so that no call of advance_frame runs for ever.
C29_DecodeTerminates == status # "hang"

\* the length in bytes of the byte-aligned payload Encoder::write makes of a frame
aligned_len(bits) == (Len(bits) + 7) \div 8

frame_payload_len(fr) ==
  IF fr.kind = "I"
  THEN aligned_len(prologue_bits(rle_create_huffman(rle_encode(frame_coeff(fr.f))).table, 0)
                   \o rle_bits(rle_create_huffman(rle_encode(frame_coeff(fr.f))),
                               rle_encode(frame_coeff(fr.f))))
  ELSE IF fr.kind = "P"
  THEN aligned_len((prologue_bits(rle_create_huffman(rle_encode(frame_coeff_delta(fr.f))).table, 1)
                    \o ((plane_header_bits(fr.f.y) \o plane_header_bits(fr.f.u))
                        \o plane_header_bits(fr.f.v)))
                   \o rle_bits(rle_create_huffman(rle_encode(frame_coeff_delta(fr.f))),
                               rle_encode(frame_coeff_delta(fr.f))))
  ELSE 0

\* the packets of types 1 and 2 of a stream
written_video(bytes) == SelectSeq(stream_packets(bytes), is_video)

\* where the reader stood once packet j of a call had been dealt with
position_after(call, j, pos) ==
  IF j < Len(call.packets) THEN call.packets[j + 1].off ELSE pos

\* C30: a call of advance_frame that returns without an error leaves the reader, after
\* every packet of type 1, 2, 3 or of an unknown type it has dealt with, at the offset
\* of the packet + 5 + the length the packet declares, whatever part of the payload the
\* decoder of the packet has read; and the length Encoder::write gives an I-frame or
\* P-frame packet is the length in bytes of the byte-aligned payload that follows it.
C30_PacketFraming ==
  /\ (status = "open" /\ last.op = "advance_frame" /\ last.ret \in {"true", "false"}) =>
       \A j \in 1..Len(last.calls[1].packets) :
         last.calls[1].packets[j].type # 0 =>
           position_after(last.calls[1], j, dec.pos)
             = (last.calls[1].packets[j].off + 5) + last.calls[1].packets[j].len
  /\ (status = "written" /\ stream = encoder_write(enc).bytes) =>
       /\ Len(written_video(stream)) = Len(enc.frames)
       /\ \A k \in 1..Len(enc.frames) :
            /\ written_video(stream)[k].len = frame_payload_len(enc.frames[k])
            /\ written_video(stream)[k].off + 5 + written_video(stream)[k].len
                 <= Len(stream) - 5

\* a call has skipped a packet of unknown type and then read a video packet whose
\* payload goes on behind its last coefficient, and has delivered the frame
C30_Witness ==
  /\ status = "open"
  /\ calc # NO_CALC
  /\ last.op = "advance_frame"
  /\ last.ret = "true"
  /\ Len(last.calls[1].packets) = 2
  /\ last.calls[1].packets[1].type \in UnknownTypes
  /\ last.calls[1].packets[1].len = 5
  /\ last.calls[1].packets[2].type = 2
  /\ last.calls[1].packets[2].off = calc.off + 10
  /\ Len(calc.extra) = 6
  /\ dec.pos = (last.calls[1].packets[2].off + 5) + last.calls[1].packets[2].len
  /\ video_count(last.calls[1]) = 1


====
